---- MODULE Spec2Model ----
(***************************************************************************)
(* Model of the vibereport VPS worker (vps-worker/src/main.rs): the        *)
(* interactive /scan handler, the /index-scan handler with its detached    *)
(* batch task (pass 1, pass 2, publication), the two semaphores and the    *)
(* pure helpers (validators, date range, backfill aggregation).            *)
(*                                                                         *)
(* Strings are sequences of Unicode code points (Rust str), so that        *)
(* matching, prefix tests and the lexicographic comparison of dates are    *)
(* computed, not assumed.                                                  *)
(***************************************************************************)
EXTENDS Integers, Sequences, FiniteSets, TLC

VARIABLES
    userPermits,   \* permits available in AppState.user_semaphore
    indexPermits,  \* permits available in AppState.index_semaphore
    userQueue,     \* /scan requests suspended in user_semaphore.acquire(), FIFO
    indexQueue,    \* batch units suspended in index_semaphore.acquire(), FIFO
    scans,         \* /scan requests: position of each handler
    cleanups,      \* /scan workspaces left to a detached clean-up task not yet run
    leaked,        \* a batch unit has returned and left its workspace directory
    runs,          \* /index-scan requests and the batch task each one launched
    event,         \* the last observable event (response, unit return, POST)
    load,          \* the workload of this behaviour: <<#scan requests, #index requests>>
    orphans,       \* children of timed-out units still alive (followed when load.children)
    cli            \* the call of the command-line scanner under way, if any

vars == <<userPermits, indexPermits, userQueue, indexQueue, scans, cleanups,
          leaked, runs, event, load, orphans, cli>>

\* Option<T>: None is the empty tuple, Some(x) the one-element tuple.
None == <<>>
Some(x) == <<x>>
IsSome(o) == Len(o) = 1
Unwrap(o) == o[1]

(***************************************************************************)
(* Strings                                                                 *)
(***************************************************************************)

\* "Bearer "
BearerPrefix == <<66, 101, 97, 114, 101, 114, 32>>
\* "https://github.com/"
GithubPrefix == <<104, 116, 116, 112, 115, 58, 47, 47, 103, 105, 116, 104, 117, 98,
                  46, 99, 111, 109, 47>>
\* "http"
HttpPrefix == <<104, 116, 116, 112>>
\* "github:"
GithubColon == <<103, 105, 116, 104, 117, 98, 58>>
\* ".git"
DotGit == <<46, 103, 105, 116>>

StartsWith(s, p) ==
    /\ Len(s) >= Len(p)
    /\ \A i \in 1..Len(p) : s[i] = p[i]

EndsWith(s, p) ==
    /\ Len(s) >= Len(p)
    /\ \A i \in 1..Len(p) : s[Len(s) - Len(p) + i] = p[i]

Drop(s, n) == SubSeq(s, n + 1, Len(s))

\* str::replace(pat, ""): every non-overlapping occurrence, left to right.
RECURSIVE RemoveAll(_, _)
RemoveAll(s, pat) ==
    IF s = <<>> THEN <<>>
    ELSE IF StartsWith(s, pat) THEN RemoveAll(Drop(s, Len(pat)), pat)
    ELSE <<Head(s)>> \o RemoveAll(Tail(s), pat)

\* [a-zA-Z0-9_.-]
IsSafeChar(c) ==
    \/ c \in 97..122
    \/ c \in 65..90
    \/ c \in 48..57
    \/ c \in {95, 46, 45}

\* \d of the regex crate (Unicode mode): ASCII digits and the other
\* decimal-digit code points, of which the Arabic-Indic block is kept here.
IsDigitChar(c) == c \in 48..57 \/ c \in 1632..1641

\* ^[a-zA-Z0-9_.-]+/[a-zA-Z0-9_.-]+$
MatchRepoSlug(s) ==
    \E k \in 2..(Len(s) - 1) :
        /\ s[k] = 47
        /\ \A i \in 1..Len(s) : i # k => IsSafeChar(s[i])

\* ^https://github\.com/[a-zA-Z0-9_.-]+/[a-zA-Z0-9_.-]+(\.git)?$
MatchGithubUrl(s) ==
    /\ StartsWith(s, GithubPrefix)
    /\ LET rest == Drop(s, Len(GithubPrefix))
       IN  \/ MatchRepoSlug(rest)
           \/ /\ EndsWith(rest, DotGit)
              /\ MatchRepoSlug(SubSeq(rest, 1, Len(rest) - Len(DotGit)))

\* ^\d{4}-\d{2}-\d{2}$
MatchSinceDate(s) ==
    /\ Len(s) = 10
    /\ \A i \in {1, 2, 3, 4, 6, 7, 9, 10} : IsDigitChar(s[i])
    /\ s[5] = 45
    /\ s[8] = 45

\* &str comparison (<=): lexicographic on the UTF-8 bytes, which orders strings
\* as the lexicographic order on their code points does.
RECURSIVE StrLe(_, _)
StrLe(a, b) ==
    IF a = <<>> THEN TRUE
    ELSE IF b = <<>> THEN FALSE
    ELSE IF Head(a) # Head(b) THEN Head(a) < Head(b)
    ELSE StrLe(Tail(a), Tail(b))

(***************************************************************************)
(* Authenticator                                                           *)
(***************************************************************************)

\* AppState.auth_token, read from AUTH_TOKEN at start-up: "s3"
AuthToken == <<115, 51>>

\* a comparison that zips the two slices and so stops at the shorter one
CtEqZip(a, b) ==
    \A i \in 1..(IF Len(a) < Len(b) THEN Len(a) ELSE Len(b)) : a[i] = b[i]

\* subtle::ConstantTimeEq on byte slices: slices of different lengths are
\* unequal, otherwise every position is compared.
CtEq(a, b) ==
    /\ Len(a) = Len(b)
    /\ \A i \in 1..Len(a) : a[i] = b[i]

\* headers.get("authorization") ... unwrap_or("") against "Bearer <token>"
AuthOK(auth) == CtEq(auth, BearerPrefix \o AuthToken)

(***************************************************************************)
(* Dates (chrono::NaiveDate), as <<year, month, day>>                      *)
(***************************************************************************)

IsLeap(y) == (y % 4 = 0 /\ y % 100 # 0) \/ y % 400 = 0

DaysInMonth(y, m) ==
    IF m \in {1, 3, 5, 7, 8, 10, 12} THEN 31
    ELSE IF m \in {4, 6, 9, 11} THEN 30
    ELSE IF IsLeap(y) THEN 29 ELSE 28

\* NaiveDate::parse_from_str(s, "%Y-%m-%d") on a string that matched
\* SINCE_DATE_RE: the numeric fields take ASCII digits only, and the date
\* must exist in the calendar.
ParseDate(s) ==
    IF \E i \in {1, 2, 3, 4, 6, 7, 9, 10} : s[i] \notin 48..57 THEN None
    ELSE LET y == (s[1] - 48) * 1000 + (s[2] - 48) * 100 + (s[3] - 48) * 10 + (s[4] - 48)
             m == (s[6] - 48) * 10 + (s[7] - 48)
             d == (s[9] - 48) * 10 + (s[10] - 48)
         IN  IF m \in 1..12 /\ d >= 1 /\ d <= DaysInMonth(y, m)
             THEN <<y, m, d>> ELSE None

\* NaiveDate ordering, strict
DateLt(a, b) ==
    \/ a[1] < b[1]
    \/ a[1] = b[1] /\ a[2] < b[2]
    \/ a[1] = b[1] /\ a[2] = b[2] /\ a[3] < b[3]

\* NaiveDate ordering
DateLe(a, b) ==
    \/ a[1] < b[1]
    \/ a[1] = b[1] /\ a[2] < b[2]
    \/ a[1] = b[1] /\ a[2] = b[2] /\ a[3] <= b[3]

\* current += chrono::Duration::days(1)
NextDay(dt) ==
    IF dt[3] < DaysInMonth(dt[1], dt[2]) THEN <<dt[1], dt[2], dt[3] + 1>>
    ELSE IF dt[2] < 12 THEN <<dt[1], dt[2] + 1, 1>>
    ELSE <<dt[1] + 1, 1, 1>>

\* current.format("%Y-%m-%d").to_string(), years 0..9999
FormatDate(dt) ==
    << 48 + (dt[1] \div 1000), 48 + ((dt[1] \div 100) % 10),
       48 + ((dt[1] \div 10) % 10), 48 + (dt[1] % 10), 45,
       48 + (dt[2] \div 10), 48 + (dt[2] % 10), 45,
       48 + (dt[3] \div 10), 48 + (dt[3] % 10) >>

\* while current <= end { dates.push(...); current += 1 day }
RECURSIVE DatesFrom(_, _)
DatesFrom(current, end) ==
    IF DateLe(current, end)
    THEN <<FormatDate(current)>> \o DatesFrom(NextDay(current), end)
    ELSE <<>>

\* fn generate_date_range(from, to) -> Option<Vec<String>>
generate_date_range(from, to) ==
    LET start == ParseDate(from)
        end == ParseDate(to)
    IN  IF start = None \/ end = None THEN None
        ELSE IF ~DateLe(start, end) THEN None
        ELSE Some(DatesFrom(start, end))

(***************************************************************************)
(* Backfill aggregation (index_scan_handler, publication part)             *)
(***************************************************************************)

\* A JSON document of the analyzer is kept by the fields the worker reads:
\* [total_commits, ai_commits : Option<u64>, daily_commits : Option<array>],
\* None standing for "absent or of another JSON type". An element of
\* daily_commits is [date : Option<String>, total, ai : Option<u64>].

\* serde_json::from_value::<DayEntry>(v).ok()
IsDayEntry(v) == IsSome(v.date) /\ IsSome(v.total) /\ IsSome(v.ai)

ToDayEntry(v) == [date |-> Unwrap(v.date), total |-> Unwrap(v.total), ai |-> Unwrap(v.ai)]

MapSeq(s, Op(_)) == [i \in 1..Len(s) |-> Op(s[i])]

\* data["daily_commits"].as_array().map(...filter_map...).unwrap_or_default()
DaysOf(data) ==
    IF IsSome(data.daily_commits)
    THEN MapSeq(SelectSeq(Unwrap(data.daily_commits), IsDayEntry), ToDayEntry)
    ELSE <<>>

\* for (slug, data) in &raw_results { repo_dailies.push(RepoDailyBreakdown{..}) }
RepoDailies(raw_results) ==
    [i \in 1..Len(raw_results) |->
        [repo_slug |-> raw_results[i].slug, days |-> DaysOf(raw_results[i].data)]]

\* day.date.as_str() == scan_date.as_str()
OnSameDay(day_date, scan_date) == day_date = scan_date

\* day.date.as_str() < scan_date.as_str()
OnOrBeforeStrict(day_date, scan_date) == StrLe(day_date, scan_date) /\ day_date # scan_date

\* day.date.as_str() >= scan_date.as_str()
OnOrAfter(day_date, scan_date) == StrLe(scan_date, day_date)

\* day.date.as_str() <= scan_date.as_str()
OnOrBefore(day_date, scan_date) == StrLe(day_date, scan_date)

\* rd.days.iter().fold((0, 0), |(t, a), day| ...)
RECURSIVE FoldDays(_, _, _)
FoldDays(days, scan_date, acc) ==
    IF days = <<>> THEN acc
    ELSE FoldDays(Tail(days), scan_date,
                  IF OnOrBefore(Head(days).date, scan_date)
                  THEN <<acc[1] + Head(days).total, acc[2] + Head(days).ai>>
                  ELSE acc)

CumulativeResult(rd, scan_date) ==
    LET sums == FoldDays(rd.days, scan_date, <<0, 0>>)
    IN  [repo_slug |-> rd.repo_slug, total_commits |-> sums[1], ai_commits |-> sums[2]]

\* a filter that keeps every repository
HasCommitsOrNot(r) == r.total_commits >= 0

\* .filter(|r| r.total_commits > 0)
HasCommits(r) == r.total_commits > 0

\* the result set of one scan_date in backfill mode
BackfillResults(repo_dailies, scan_date) ==
    SelectSeq([i \in 1..Len(repo_dailies) |-> CumulativeResult(repo_dailies[i], scan_date)],
              HasCommits)

\* data["total_commits"].as_u64().unwrap_or(1)
U64Or1(o) == IF IsSome(o) THEN Unwrap(o) ELSE 1

\* data["total_commits"].as_u64().unwrap_or(0)
U64Or0(o) == IF IsSome(o) THEN Unwrap(o) ELSE 0

\* the result set in normal (single date) mode
NormalResults(raw_results) ==
    [i \in 1..Len(raw_results) |->
        [repo_slug |-> raw_results[i].slug,
         total_commits |-> U64Or0(raw_results[i].data.total_commits),
         ai_commits |-> U64Or0(raw_results[i].data.ai_commits)]]

\* backfill whatever the number of dates
IsBackfillAlways(scan_dates) == Len(scan_dates) >= 1

\* let is_backfill = scan_dates.len() > 1
IsBackfill(scan_dates) == Len(scan_dates) > 1

\* a running cut-off kept from one date of the list to the next: the latest
\* of the dates processed so far
ResultsForRunning(raw_results, scan_dates, k) ==
    LET latest == CHOOSE d \in { scan_dates[j] : j \in 1..k } :
                      \A j \in 1..k : StrLe(scan_dates[j], d)
    IN  IF IsBackfill(scan_dates)
        THEN BackfillResults(RepoDailies(raw_results), latest)
        ELSE NormalResults(raw_results)

\* the result set posted for scan_dates[k]
ResultsFor(raw_results, scan_dates, k) ==
    IF IsBackfill(scan_dates)
    THEN BackfillResults(RepoDailies(raw_results), scan_dates[k])
    ELSE NormalResults(raw_results)

(***************************************************************************)
(* Bounds and program constants                                            *)
(***************************************************************************)

\* /scan requests of a behaviour
MaxScans == 3
\* elements of a daily_commits array
MaxDays == 3
\* panel repositories over the batch runs of a behaviour
MaxUnits == 4
MaxRefLen == 4
MaxTreeDepth == 3

\* Semaphore::new(2), Semaphore::new(3)
UserCapacity == 2
IndexCapacity == 3
\* .buffer_unordered(3)
BufferSize == 3
\* scan_single_repo_raw(&slug, &bin, 120, 60) and (.., 240, 120)
CloneTimeout == 120
AnalyzeTimeout == 60
RetryCloneTimeout == 240
RetryAnalyzeTimeout == 120

\* The workloads explored. Interactive requests alone, over the capacity of
\* their pool. Two batch runs that together exceed the capacity of the index
\* pool, the panel repositories shared out evenly, with one request body and
\* one analyzer document (wide = FALSE). One batch run with every input of
\* the environment. Both routes at once.
Workloads ==
    { [scans |-> MaxScans, runs |-> 0, units |-> 0, wide |-> TRUE, dates |-> FALSE, children |-> FALSE, refs |-> FALSE, trace |-> FALSE],
      [scans |-> 0, runs |-> 2, units |-> MaxUnits, wide |-> FALSE, dates |-> FALSE, children |-> FALSE, refs |-> FALSE, trace |-> FALSE],
      [scans |-> 0, runs |-> 1, units |-> MaxUnits - 1, wide |-> TRUE, dates |-> FALSE, children |-> FALSE, refs |-> FALSE, trace |-> FALSE],
      [scans |-> 1, runs |-> 1, units |-> 2, wide |-> FALSE, dates |-> FALSE, children |-> FALSE, refs |-> FALSE, trace |-> FALSE] }

(***************************************************************************)
(* The semaphores (tokio::sync::Semaphore: fair, FIFO)                     *)
(***************************************************************************)

\* acquire() completes at once when a permit is free and nobody is queued
CanAcquire(permits, queue) == permits > 0 /\ queue = <<>>

\* the head waiter is handed a permit as soon as one is free
CanAdmit(permits, queue, who) == permits > 0 /\ queue # <<>> /\ Head(queue) = who

\* as `let _ = sem.acquire().await` would do: the permit is dropped at once
AcquireDropped(permits) == permits

Acquire(permits) == permits - 1

\* a permit that is forgotten instead of dropped
ReleaseForgotten(permits) == permits

\* drop(_permit)
Release(permits) == permits + 1

(***************************************************************************)
(* Inputs of the environment                                               *)
(***************************************************************************)

\* Authorization header values: absent (""), the expected one, a wrong token
\* of the same length, a prefix of the expected one.
AuthHeaders ==
    { <<>>, BearerPrefix \o AuthToken, BearerPrefix \o <<115, 52>>, BearerPrefix \o <<115>> }

\* "github:a/b", "a /b", "https://github.com/a/b.git"
ScanRepos ==
    { GithubColon \o <<97, 47, 98>>, <<97, 32, 47, 98>>, GithubPrefix \o <<97, 47, 98>> \o DotGit }

\* Repo references built from a prefix and a short body over 'a', '.', '/'
\* and ' ': bare slugs, slugs that begin with "http", github: shorthands,
\* URLs, and malformed ones.
RefChars == { 97, 46, 47, 32 }

RECURSIVE RefBodies(_)
RefBodies(n) ==
    IF n = 0 THEN { <<>> }
    ELSE LET shorter == RefBodies(n - 1)
         IN  shorter \cup { Append(b, c) : b \in { t \in shorter : Len(t) = n - 1 }, c \in RefChars }

RefPrefixes == { <<>>, GithubColon, HttpPrefix, GithubPrefix }

RepoRefs == { p \o b : p \in RefPrefixes, b \in RefBodies(MaxRefLen) \ { <<>> } }

ScanReposOf(w) == IF w.refs THEN RepoRefs ELSE ScanRepos

\* absent, "20250101"
ScanSinces == { None, Some(<<50, 48, 50, 53, 48, 49, 48, 49>>) }

\* with 2024-02-29 and 2025-02-30 where the validator alone is examined
ScanSincesOf(w) ==
    IF w.refs
    THEN ScanSinces \cup { Some(FormatDate(<<2024, 2, 29>>)), Some(FormatDate(<<2025, 2, 30>>)) }
    ELSE ScanSinces

\* std::io::Error texts of a failed spawn, serde_json error texts
OsErrors == { "No such file or directory", "Permission denied" }

\* Analyzer stdout: not JSON (with the parser's error text), or a document.
DocFull ==
    [total_commits |-> Some(3), ai_commits |-> Some(2),
     daily_commits |-> Some(<<
        [date |-> Some(FormatDate(<<2025, 1, 1>>)), total |-> Some(2), ai |-> Some(1)],
        [date |-> Some(FormatDate(<<2025, 1, 3>>)), total |-> Some(1), ai |-> Some(1)] >>)]

DocBare == [total_commits |-> None, ai_commits |-> None, daily_commits |-> None]

Stdouts ==
    { [json |-> FALSE, err |-> "expected value at line 1 column 1"],
      [json |-> FALSE, err |-> "EOF while parsing a value"],
      [json |-> TRUE, data |-> DocFull],
      [json |-> TRUE, data |-> DocBare] }

\* the analyzer outputs of a workload
StdoutsOf(w) ==
    IF w.wide THEN Stdouts
    ELSE { [json |-> FALSE, err |-> "EOF while parsing a value"],
           [json |-> TRUE, data |-> DocFull] }

(***************************************************************************)
(* POST /scan (scan_handler)                                               *)
(***************************************************************************)

\* "2025-01-01"
DefaultSince == FormatDate(<<2025, 1, 1>>)

\* req.since.unwrap_or_else(|| "2025-01-01".into())
SinceOf(since) == IF IsSome(since) THEN Unwrap(since) ELSE DefaultSince

\* lines 72-89: the clone URL of a repo reference, None when it is rejected
RepoUrl(repo) ==
    IF StartsWith(repo, HttpPrefix)
    THEN IF MatchGithubUrl(repo) THEN Some(repo) ELSE None
    ELSE LET cleaned == RemoveAll(repo, GithubColon)
         IN  IF MatchRepoSlug(cleaned)
             THEN Some(GithubPrefix \o cleaned \o DotGit) ELSE None

NoEvent == [type |-> "none"]

\* The steps a unit has gone through, kept when the workload follows them:
\* "clone_err" and "analyze_err" (the spawn failed), "clone_0", "clone_1",
\* "analyze_0", "analyze_1" (the exit status, 1 for any non-zero one),
\* "clone_timeout", "analyze_timeout", "parse_ok", "parse_err".
Trace(log, steps) == IF load.trace THEN log \o steps ELSE log

\* the worker makes no call of the command-line scanner
NoCli == [op |-> "none"]

\* The response of scan_handler, with what the handler had done when it
\* returned: acquired a permit, spawned n subprocesses, left the workspace.
ScanResponse(q, status, msg, detail, acquired, spawned, dir) ==
    [type |-> "scan", status |-> status, msg |-> msg, detail |-> detail,
     data |-> None, auth |-> q.auth, repo |-> q.repo, since |-> q.since,
     acquired |-> acquired, spawned |-> spawned, dir |-> dir, log |-> <<>>]

Logged(response, log) == [response EXCEPT !.log = log]

ScanDone == [st |-> "Done"]

\* Lines 59-106, run with the permit held: validation, then the clone is
\* spawned. The permit taken from `permits` is dropped on every return.
\* `base` is the request table with request r in it.
ScanStart(base, r, q, permits) ==
    LET held == Acquire(permits)
    IN  IF ~MatchSinceDate(SinceOf(q.since))
        THEN /\ scans' = [base EXCEPT ![r] = ScanDone]
             /\ userPermits' = Release(held)
             /\ event' = ScanResponse(q, 400, "Invalid since format, expected YYYY-MM-DD",
                                      "", TRUE, 0, FALSE)
        ELSE IF RepoUrl(q.repo) = None
        THEN /\ scans' = [base EXCEPT ![r] = ScanDone]
             /\ userPermits' = Release(held)
             /\ event' = ScanResponse(q, 400,
                    IF StartsWith(q.repo, HttpPrefix)
                    THEN "Invalid repo URL: must be https://github.com/{user}/{repo}"
                    ELSE "Invalid repo slug: must be {user}/{repo}",
                    "", TRUE, 0, FALSE)
        ELSE \/ \E e \in OsErrors :
                  /\ scans' = [base EXCEPT ![r] = ScanDone]
                  /\ userPermits' = Release(held)
                  /\ event' = Logged(ScanResponse(q, 500, "Clone failed: ", e, TRUE, 0, FALSE),
                                      Trace(<<>>, <<"clone_err">>))
             \/ /\ scans' = [base EXCEPT ![r] =
                        [st |-> "Cloning", auth |-> q.auth, repo |-> q.repo, since |-> q.since,
                         repo_url |-> Unwrap(RepoUrl(q.repo)), since_arg |-> SinceOf(q.since),
                         log |-> <<>>]]
                /\ userPermits' = held
                /\ event' = NoEvent

\* A /scan request arrives: the auth check, then user_semaphore.acquire().
ScanArrive ==
    /\ load.scans > 0
    /\ load' = [load EXCEPT !.scans = @ - 1]
    /\ \E auth \in AuthHeaders, repo \in ScanReposOf(load), since \in ScanSincesOf(load) :
        LET r == Len(scans) + 1
            q == [auth |-> auth, repo |-> repo, since |-> since]
        IN  IF ~AuthOK(auth)
            THEN /\ scans' = Append(scans, ScanDone)
                 /\ event' = ScanResponse(q, 401, "Invalid token", "", FALSE, 0, FALSE)
                 /\ UNCHANGED <<userPermits, userQueue>>
            ELSE IF CanAcquire(userPermits, userQueue)
            THEN /\ ScanStart(Append(scans, ScanDone), r, q, userPermits)
                 /\ UNCHANGED userQueue
            ELSE /\ scans' = Append(scans, [st |-> "Waiting", auth |-> auth, repo |-> repo,
                                            since |-> since])
                 /\ userQueue' = Append(userQueue, r)
                 /\ event' = NoEvent
                 /\ UNCHANGED userPermits
    /\ UNCHANGED <<indexPermits, indexQueue, cleanups, leaked, runs, orphans, cli>>

\* A suspended acquire() completes: the head of the queue takes the permit.
ScanAdmit(r) ==
    /\ scans[r].st = "Waiting"
    /\ CanAdmit(userPermits, userQueue, r)
    /\ userQueue' = Tail(userQueue)
    /\ ScanStart(scans, r, scans[r], userPermits)
    /\ UNCHANGED <<indexPermits, indexQueue, cleanups, leaked, runs, load, orphans, cli>>

\* Lines 99-134: the clone exits; on status zero the analyzer is spawned.
\* On a spawn error of the analyzer the workspace is removed by a detached
\* task, which has not run when the handler returns.
ScanCloneExit(r) ==
    /\ scans[r].st = "Cloning"
    /\ \/ /\ scans' = [scans EXCEPT ![r] = ScanDone]
          /\ userPermits' = Release(userPermits)
          /\ event' = Logged(ScanResponse(scans[r], 400,
                                          "Clone failed: repository not accessible",
                                          "", TRUE, 1, FALSE),
                             Trace(scans[r].log, <<"clone_1">>))
          /\ UNCHANGED <<cleanups, leaked>>
       \/ \E e \in OsErrors :
          /\ scans' = [scans EXCEPT ![r] = ScanDone]
          /\ userPermits' = Release(userPermits)
          /\ cleanups' = cleanups + 1
          /\ event' = Logged(ScanResponse(scans[r], 500, "Analysis failed: ", e, TRUE, 1, TRUE),
                             Trace(scans[r].log, <<"clone_0", "analyze_err">>))
          /\ UNCHANGED leaked
       \/ /\ scans' = [scans EXCEPT ![r].st = "Analyzing",
                                   ![r].log = Trace(@, <<"clone_0">>)]
          /\ event' = NoEvent
          /\ UNCHANGED <<userPermits, cleanups, leaked>>
    /\ UNCHANGED <<indexPermits, userQueue, indexQueue, runs, load, orphans, cli>>

\* Lines 136-154: the analyzer exits; the workspace is removed, then the
\* status is looked at and stdout parsed.
ScanAnalyzeExit(r) ==
    /\ scans[r].st = "Analyzing"
    /\ scans' = [scans EXCEPT ![r] = ScanDone]
    /\ userPermits' = Release(userPermits)
    /\ \/ event' = Logged(ScanResponse(scans[r], 500, "Analysis failed", "", TRUE, 2, FALSE),
                       Trace(scans[r].log, <<"analyze_1">>))
       \/ \E out \in Stdouts :
            event' = IF out.json
                     THEN [ScanResponse(scans[r], 200, "", "", TRUE, 2, FALSE)
                              EXCEPT !.data = Some(out.data),
                                     !.log = Trace(scans[r].log, <<"analyze_0", "parse_ok">>)]
                     ELSE Logged(ScanResponse(scans[r], 500, "Parse error: ", out.err,
                                              TRUE, 2, FALSE),
                                 Trace(scans[r].log, <<"analyze_0", "parse_err">>))
    /\ UNCHANGED <<indexPermits, userQueue, indexQueue, cleanups, leaked, runs, load, orphans, cli>>

\* The detached task of line 127: tokio::fs::remove_dir_all(&tmp)
CleanupRun ==
    /\ cleanups > 0
    /\ cleanups' = cleanups - 1
    /\ event' = [type |-> "cleanup"]
    /\ UNCHANGED <<userPermits, indexPermits, userQueue, indexQueue, scans, leaked, runs,
                   load, orphans, cli>>


(***************************************************************************)
(* POST /index-scan (index_scan_handler) and its batch task                *)
(***************************************************************************)

\* chrono::Utc::now(), as a date
Now == <<2026, 1, 15>>

\* chrono::Utc::now().format("%Y-%m-%d").to_string()
Today == FormatDate(Now)

\* fn get_current_quarter(): <<year, quarter>> for "{year}-Q{q}"
get_current_quarter == <<Now[1], ((Now[2] - 1) \div 3) + 1>>

\* target dates that look at scan_dates first and at the range second
BuildScanDatesListFirst(req) ==
    IF IsSome(req.scan_dates) /\ Unwrap(req.scan_dates) # <<>>
    THEN LET dates == Unwrap(req.scan_dates)
         IN  IF \E i \in 1..Len(dates) : ~MatchSinceDate(dates[i])
             THEN [ok |-> FALSE, msg |-> "Invalid scan_date format: {}, expected YYYY-MM-DD"]
             ELSE [ok |-> TRUE, dates |-> dates]
    ELSE IF IsSome(req.from_date) /\ IsSome(req.to_date)
    THEN IF ~MatchSinceDate(Unwrap(req.from_date)) \/ ~MatchSinceDate(Unwrap(req.to_date))
         THEN [ok |-> FALSE, msg |-> "from_date/to_date must match YYYY-MM-DD"]
         ELSE LET range == generate_date_range(Unwrap(req.from_date), Unwrap(req.to_date))
              IN  IF range = None
                  THEN [ok |-> FALSE,
                        msg |-> "Invalid date range (check dates are valid and from <= to)"]
                  ELSE [ok |-> TRUE, dates |-> Unwrap(range)]
    ELSE [ok |-> TRUE, dates |-> <<Today>>]

\* target dates that validate a bound given alone as well
BuildScanDatesEachBound(req) ==
    IF \/ IsSome(req.from_date) /\ ~MatchSinceDate(Unwrap(req.from_date))
       \/ IsSome(req.to_date) /\ ~MatchSinceDate(Unwrap(req.to_date))
    THEN [ok |-> FALSE, msg |-> "from_date/to_date must match YYYY-MM-DD"]
    ELSE BuildScanDatesListFirst([req EXCEPT !.scan_dates =
                                     IF IsSome(req.from_date) /\ IsSome(req.to_date)
                                     THEN None ELSE @])

\* Lines 208-239: the target dates of a request, or the 400 message.
BuildScanDates(req) ==
    IF IsSome(req.from_date) /\ IsSome(req.to_date)
    THEN IF ~MatchSinceDate(Unwrap(req.from_date)) \/ ~MatchSinceDate(Unwrap(req.to_date))
         THEN [ok |-> FALSE, msg |-> "from_date/to_date must match YYYY-MM-DD"]
         ELSE LET range == generate_date_range(Unwrap(req.from_date), Unwrap(req.to_date))
              IN  IF range = None
                  THEN [ok |-> FALSE,
                        msg |-> "Invalid date range (check dates are valid and from <= to)"]
                  ELSE [ok |-> TRUE, dates |-> Unwrap(range)]
    ELSE IF IsSome(req.scan_dates)
    THEN LET dates == Unwrap(req.scan_dates)
         IN  IF \E i \in 1..Len(dates) : ~MatchSinceDate(dates[i])
             THEN [ok |-> FALSE, msg |-> "Invalid scan_date format: {}, expected YYYY-MM-DD"]
             ELSE IF dates = <<>> THEN [ok |-> TRUE, dates |-> <<Today>>]
             ELSE [ok |-> TRUE, dates |-> dates]
    ELSE [ok |-> TRUE, dates |-> <<Today>>]

\* Lines 265-270: the repo_slug strings of panel["repos"]; an entry is the
\* Option of its repo_slug string, the array itself may be absent.
PanelRepos(panel) ==
    IF IsSome(panel)
    THEN MapSeq(SelectSeq(Unwrap(panel), IsSome), Unwrap)
    ELSE <<>>

\* Request bodies: no field; a two-day range (with a scan_dates list that is
\* ignored); from > to; an empty scan_dates list; a malformed scan_date.
IndexRequests ==
    { [scan_dates |-> None, from_date |-> None, to_date |-> None],
      [scan_dates |-> Some(<<FormatDate(<<2025, 3, 1>>)>>),
       from_date |-> Some(FormatDate(<<2025, 1, 2>>)),
       to_date |-> Some(FormatDate(<<2025, 1, 3>>))],
      [scan_dates |-> None,
       from_date |-> Some(FormatDate(<<2025, 1, 3>>)),
       to_date |-> Some(FormatDate(<<2025, 1, 2>>))],
      [scan_dates |-> Some(<<>>), from_date |-> Some(FormatDate(<<2025, 1, 3>>)),
       to_date |-> None],
      [scan_dates |-> Some(<<Today, <<50, 48, 50, 53>> >>), from_date |-> None,
       to_date |-> None] }

\* Date strings of request bodies: around the end of a year and of the
\* February of a leap year; then 2025-02-29 and 2025-13-01
\* (not in the calendar), 2025-01-01 in Arabic-Indic digits (matched by \d,
\* not a number for chrono), and "2025".
DateStrings ==
    { FormatDate(dt) : dt \in { <<2023, 12, 31>>, <<2024, 1, 1>>, <<2024, 2, 28>>,
                                <<2024, 2, 29>>, <<2024, 3, 1>>, <<2025, 2, 29>>,
                                <<2025, 13, 1>> } }
    \cup { <<1634, 1632, 1634, 1637, 45, 1632, 1633, 45, 1632, 1633>>,
           <<50, 48, 50, 53>> }

\* Request bodies over DateStrings: each of from_date and to_date absent or
\* present, with scan_dates absent, empty, a list out of order, a list
\* with a malformed element, or a list with 2025-02-30.
DateRequests ==
    [ scan_dates : { None, Some(<<>>),
                     Some(<<FormatDate(<<2025, 3, 1>>), FormatDate(<<2025, 2, 28>>)>>),
                     Some(<<FormatDate(<<2025, 3, 1>>), <<50, 48, 50, 53>> >>),
                     Some(<<FormatDate(<<2025, 2, 30>>)>>) },
      from_date : {None} \cup { Some(d) : d \in DateStrings },
      to_date : {None} \cup { Some(d) : d \in DateStrings } ]

\* the request bodies of a workload
IndexRequestsOf(w) ==
    IF w.dates THEN DateRequests
    ELSE IF w.wide THEN IndexRequests
    ELSE { [scan_dates |-> None, from_date |-> None, to_date |-> None] }

\* "a/b", "a /b" (outside the safe class), "c/d"
PanelSlugs == << <<97, 47, 98>>, <<97, 32, 47, 98>>, <<99, 47, 100>> >>

\* Panels of the aggregator with at most n usable entries: no "repos" array,
\* an empty one, one whose only entry has no repo_slug, n entries cycling
\* over PanelSlugs, or twice the same slug around an entry without repo_slug.
Panels(n) ==
    { None, Some(<<>>), Some(<<None>>) }
    \cup { Some([j \in 1..k |-> Some(PanelSlugs[((j - 1) % 3) + 1])]) : k \in 1..n }
    \cup { Some(<<Some(PanelSlugs[1]), None, Some(PanelSlugs[1])>>) : k \in 2..n }

\* the panels the aggregator may serve in a workload with n units left
PanelsOf(w) ==
    IF w.wide THEN Panels(w.units)
    ELSE LET k == (w.units + w.runs - 1) \div w.runs
         IN  { Some([j \in 1..k |-> Some(PanelSlugs[((j - 1) % 3) + 1])]) }

\* The unit of panel position i of a run, before its first attempt.
\* `tmo` and `out` record, per attempt, the timeouts passed to
\* scan_single_repo_raw and whether it returned Some.
NewUnit == [st |-> "Pending", tmo |-> <<>>, out |-> <<>>, log |-> <<>>]

\* a batch task that the handler has awaited to its end
NewRunAwaited(repos, scan_dates) ==
    [pc |-> "Done", repos |-> repos, scan_dates |-> scan_dates,
     work |-> [j \in 1..Len(repos) |-> j], next |-> Len(repos) + 1,
     units |-> [j \in 1..Len(repos) |->
                  [st |-> "Done", tmo |-> <<<<CloneTimeout, AnalyzeTimeout>>>>,
                   out |-> <<TRUE>>, log |-> <<>>]],
     scanned |-> <<>>,
     raw_results |-> [j \in 1..Len(repos) |-> [slug |-> repos[j], data |-> DocFull]],
     retry_results |-> <<>>, posted |-> Len(scan_dates)]

\* The batch task as tokio::spawn leaves it: pass 1 streams over repos.
NewRun(repos, scan_dates) ==
    [pc |-> "Pass1", repos |-> repos, scan_dates |-> scan_dates,
     work |-> [j \in 1..Len(repos) |-> j], next |-> 1,
     units |-> [j \in 1..Len(repos) |-> NewUnit],
     scanned |-> <<>>, raw_results |-> <<>>, retry_results |-> <<>>, posted |-> 0]

IndexResponse(auth, req, status, body, fetched, launched) ==
    [type |-> "index", status |-> status, body |-> body, auth |-> auth, req |-> req,
     fetched |-> fetched, launched |-> launched, panel |-> <<>>]

\* the response of a request that got `panel` from the aggregator
WithPanel(response, panel) == [response EXCEPT !.panel = <<panel>>]

\* a test of the panel that never finds it empty
NeverEmpty(repos) == FALSE

\* repos.is_empty()
NoRepos(repos) == repos = <<>>

\* An /index-scan request arrives: auth, target dates, panel fetch, then the
\* batch task is spawned and the acknowledgment returned.
IndexArrive ==
    /\ load.runs > 0
    /\ \E auth \in AuthHeaders, req \in IndexRequestsOf(load) :
        IF ~AuthOK(auth)
        THEN /\ event' = IndexResponse(auth, req, 401, [msg |-> "Invalid token"], FALSE, FALSE)
             /\ load' = [load EXCEPT !.runs = @ - 1]
             /\ UNCHANGED runs
        ELSE IF ~BuildScanDates(req).ok
        THEN /\ event' = IndexResponse(auth, req, 400, [msg |-> BuildScanDates(req).msg],
                                       FALSE, FALSE)
             /\ load' = [load EXCEPT !.runs = @ - 1]
             /\ UNCHANGED runs
        ELSE \/ \E e \in {"Failed to fetch panel: ", "Panel parse error: "} :
                  /\ event' = IndexResponse(auth, req, 500, [msg |-> e], TRUE, FALSE)
                  /\ load' = [load EXCEPT !.runs = @ - 1]
                  /\ UNCHANGED runs
             \/ \E panel \in PanelsOf(load) :
                  LET repos == PanelRepos(panel)
                      scan_dates == BuildScanDates(req).dates
                  IN  IF NoRepos(repos)
                      THEN /\ event' = WithPanel(IndexResponse(auth, req, 200,
                                  [error |-> "No repos in panel", quarter |-> get_current_quarter],
                                  TRUE, FALSE), panel)
                           /\ load' = [load EXCEPT !.runs = @ - 1]
                           /\ UNCHANGED runs
                      ELSE /\ event' = WithPanel(IndexResponse(auth, req, 200,
                                  [status |-> "started", repos |-> Len(repos),
                                   quarter |-> get_current_quarter, scan_dates |-> scan_dates],
                                  TRUE, TRUE), panel)
                           /\ load' = [load EXCEPT !.runs = @ - 1, !.units = @ - Len(repos)]
                           /\ runs' = Append(runs, NewRun(repos, scan_dates))
    /\ UNCHANGED <<userPermits, indexPermits, userQueue, indexQueue, scans, cleanups, leaked,
                   orphans, cli>>

\* Futures of the current pass that buffer_unordered holds and polls.
InFlight(run) ==
    Cardinality({j \in 1..Len(run.units) : run.units[j].st \in {"Waiting", "Cloning", "Analyzing"}})

\* The timeouts a pass hands to scan_single_repo_raw.
PassTimeouts(pc) ==
    IF pc = "Pass1" THEN <<CloneTimeout, AnalyzeTimeout>>
    ELSE <<RetryCloneTimeout, RetryAnalyzeTimeout>>

\* for (slug, result) in scanned { Some => raw_results.push, None => failed_slugs.push }
SucceededOf(scanned) ==
    MapSeq(SelectSeq(scanned, LAMBDA e : IsSome(e.result)),
           LAMBDA e : [slug |-> e.slug, data |-> Unwrap(e.result)])

\* a retry list that takes every identifier of pass 1
FailedOfAll(scanned) == MapSeq(scanned, LAMBDA e : e.i)

FailedOf(scanned) ==
    MapSeq(SelectSeq(scanned, LAMBDA e : ~IsSome(e.result)), LAMBDA e : e.i)

\* The run once pass 1 has collected every unit: lines 308-342 up to the
\* start of pass 2, or to publication when nothing failed.
AfterPass1(run) ==
    LET failed_slugs == FailedOf(run.scanned)
        raw == SucceededOf(run.scanned)
    IN  IF failed_slugs = <<>>
        THEN [run EXCEPT !.pc = "Publish", !.raw_results = raw, !.scanned = <<>>]
        ELSE [run EXCEPT !.pc = "Pass2", !.raw_results = raw, !.scanned = <<>>,
                         !.work = failed_slugs, !.next = 1,
                         !.units = [j \in 1..Len(run.units) |->
                                       IF \E k \in 1..Len(failed_slugs) : failed_slugs[k] = j
                                       THEN [run.units[j] EXCEPT !.st = "Pending"]
                                       ELSE run.units[j]]]

\* raw_results = retry_results: the pass-1 successes are lost
AfterPass2Replace(run) ==
    [run EXCEPT !.pc = "Publish", !.raw_results = run.retry_results, !.retry_results = <<>>]

\* the recovered documents are appended twice
AfterPass2Doubled(run) ==
    [run EXCEPT !.pc = "Publish",
                !.raw_results = run.raw_results \o run.retry_results \o run.retry_results,
                !.retry_results = <<>>]

\* raw_results.extend(retry_results)
AfterPass2(run) ==
    [run EXCEPT !.pc = "Publish", !.raw_results = run.raw_results \o run.retry_results,
                !.retry_results = <<>>]

\* a pass that ends only if every one of its units returned a document
PassDoneIfAllOk(run) ==
    /\ run.next > Len(run.work)
    /\ \A k \in 1..Len(run.work) :
          LET u == run.units[run.work[k]]
          IN  u.st = "Done" /\ u.out # <<>> /\ u.out[Len(u.out)]

\* a pass that ends once its last identifier has been taken from the stream
PassDoneEager(run) == run.next > Len(run.work)

\* .collect().await: every future of the pass has completed
PassDone(run) ==
    /\ run.next > Len(run.work)
    /\ \A k \in 1..Len(run.work) : run.units[run.work[k]].st = "Done"

\* scan_single_repo_raw returned `result` for unit i: the stream collects it
\* (pass 1 keeps every item, pass 2 only the Some), and the pass ends with
\* its last unit.
Collect(run, i, result) ==
    LET slug == run.repos[i]
        ret == [run EXCEPT !.units[i].st = "Done",
                           !.units[i].out = Append(@, IsSome(result))]
        got == IF run.pc = "Pass1"
               THEN [ret EXCEPT !.scanned = Append(@, [i |-> i, slug |-> slug, result |-> result])]
               ELSE IF IsSome(result)
               THEN [ret EXCEPT !.retry_results = Append(@, [slug |-> slug, data |-> Unwrap(result)])]
               ELSE ret
    IN  IF ~PassDone(got) THEN got
        ELSE IF run.pc = "Pass1" THEN AfterPass1(got)
        ELSE AfterPass2(got)

\* Unit i returns `result` after `steps`: the permit is dropped with the
\* future; `left` tells whether the workspace directory is still on disk.
UnitFinish(x, i, result, left, steps) ==
    /\ runs' = [runs EXCEPT ![x] =
                  Collect([runs[x] EXCEPT !.units[i].log = Trace(@, steps)], i, result)]
    /\ indexPermits' = Release(indexPermits)
    /\ leaked' = (leaked \/ left)
    /\ event' = NoEvent

\* Lines 428-442 with the permit held: scan_single_repo_raw is entered with
\* the timeouts of the pass and the clone is spawned. `base` is the run.
UnitScan(base, x, i, permits) ==
    LET run == [base EXCEPT !.units[i].tmo = Append(@, PassTimeouts(base.pc)),
                            !.units[i].log = <<>>]
    IN  \/ /\ runs' = [runs EXCEPT ![x] =
                      Collect([run EXCEPT !.units[i].log = Trace(@, <<"clone_err">>)], i, None)]
           /\ indexPermits' = Release(Acquire(permits))
           /\ event' = NoEvent
        \/ /\ runs' = [runs EXCEPT ![x] = [run EXCEPT !.units[i].st = "Cloning"]]
           /\ indexPermits' = Acquire(permits)
           /\ event' = NoEvent

\* buffer_unordered takes the next identifier of the pass while it holds
\* fewer than 3 futures; the future starts with index_semaphore.acquire().
UnitStart(x) ==
    /\ runs[x].pc \in {"Pass1", "Pass2"}
    /\ runs[x].next <= Len(runs[x].work)
    /\ InFlight(runs[x]) < BufferSize
    /\ LET i == runs[x].work[runs[x].next]
           run == [runs[x] EXCEPT !.next = @ + 1]
       IN  IF CanAcquire(indexPermits, indexQueue)
           THEN /\ UnitScan(run, x, i, indexPermits)
                /\ UNCHANGED indexQueue
           ELSE /\ runs' = [runs EXCEPT ![x] = [run EXCEPT !.units[i].st = "Waiting"]]
                /\ indexQueue' = Append(indexQueue, <<x, i>>)
                /\ event' = NoEvent
                /\ UNCHANGED indexPermits
    /\ UNCHANGED <<userPermits, userQueue, scans, cleanups, leaked, load, orphans, cli>>

\* A suspended acquire() of a unit completes.
UnitAdmit(x, i) ==
    /\ runs[x].units[i].st = "Waiting"
    /\ CanAdmit(indexPermits, indexQueue, <<x, i>>)
    /\ indexQueue' = Tail(indexQueue)
    /\ UnitScan(runs[x], x, i, indexPermits)
    /\ UNCHANGED <<userPermits, userQueue, scans, cleanups, leaked, load, orphans, cli>>

\* a clone whose exit status is not looked at: the analyzer is spawned after
\* a failed clone as well
UnitCloneExitUnchecked(x, i) ==
    /\ runs[x].units[i].st = "Cloning"
    /\ \/ UnitFinish(x, i, None, TRUE, <<"clone_0", "analyze_err">>)
       \/ \E status \in {"clone_0", "clone_1"} :
            /\ runs' = [runs EXCEPT ![x].units[i].st = "Analyzing",
                                    ![x].units[i].log = Trace(@, <<status>>)]
            /\ event' = NoEvent
            /\ UNCHANGED <<indexPermits, leaked>>
    /\ UNCHANGED <<userPermits, userQueue, indexQueue, scans, cleanups, load, orphans, cli>>

\* Lines 442-458: the clone exits within its deadline; on a non-zero status
\* the workspace is removed; on zero the analyzer is spawned, and a spawn
\* error returns None at once (`result.ok()?`, line 466) with the workspace
\* still in place.
UnitCloneExit(x, i) ==
    /\ runs[x].units[i].st = "Cloning"
    /\ \/ UnitFinish(x, i, None, FALSE, <<"clone_1">>)
       \/ UnitFinish(x, i, None, TRUE, <<"clone_0", "analyze_err">>)
       \/ /\ runs' = [runs EXCEPT ![x].units[i].st = "Analyzing",
                                  ![x].units[i].log = Trace(@, <<"clone_0">>)]
          /\ event' = NoEvent
          /\ UNCHANGED <<indexPermits, leaked>>
    /\ UNCHANGED <<userPermits, userQueue, indexQueue, scans, cleanups, load, orphans, cli>>

\* Lines 443-447: tokio::time::timeout elapses on the clone. The output()
\* future is dropped; the Command was built without kill_on_drop, so the
\* child is left running.
UnitCloneTimeout(x, i) ==
    /\ runs[x].units[i].st = "Cloning"
    /\ UnitFinish(x, i, None, FALSE, <<"clone_timeout">>)
    /\ UNCHANGED <<userPermits, userQueue, indexQueue, scans, cleanups, load, cli>>
    /\ orphans' = IF load.children THEN orphans + 1 ELSE orphans

\* Lines 466-486: the analyzer exits within its deadline; the workspace is
\* removed, then the status is looked at and stdout parsed.
UnitAnalyzeExit(x, i) ==
    /\ runs[x].units[i].st = "Analyzing"
    /\ \/ UnitFinish(x, i, None, FALSE, <<"analyze_1">>)
       \/ \E out \in StdoutsOf(load) :
            UnitFinish(x, i, IF out.json THEN Some(out.data) ELSE None, FALSE,
                       <<"analyze_0", IF out.json THEN "parse_ok" ELSE "parse_err">>)
    /\ UNCHANGED <<userPermits, userQueue, indexQueue, scans, cleanups, load, orphans, cli>>

\* Lines 467-475: tokio::time::timeout elapses on the analyzer, whose child
\* is left running as well.
UnitAnalyzeTimeout(x, i) ==
    /\ runs[x].units[i].st = "Analyzing"
    /\ UnitFinish(x, i, None, FALSE, <<"analyze_timeout">>)
    /\ UNCHANGED <<userPermits, userQueue, indexQueue, scans, cleanups, load, cli>>
    /\ orphans' = IF load.children THEN orphans + 1 ELSE orphans

\* a publication that does not wait for the passes: it posts as soon as the
\* run exists
PostEarly(x) ==
    /\ runs[x].pc # "Done"
    /\ runs[x].posted < Len(runs[x].scan_dates)
    /\ LET k == runs[x].posted + 1
       IN  /\ \E ok \in BOOLEAN :
                event' = [type |-> "post", run |-> x, scan_date |-> runs[x].scan_dates[k],
                          results |-> ResultsFor(runs[x].raw_results, runs[x].scan_dates, k),
                          ok |-> ok]
           /\ runs' = [runs EXCEPT ![x].posted = k]
    /\ UNCHANGED <<userPermits, indexPermits, userQueue, indexQueue, scans, cleanups,
                   leaked, load, orphans, cli>>

\* a publication that posts the same date again after a failed POST
PostRetry(x) ==
    /\ runs[x].pc = "Publish"
    /\ LET k == runs[x].posted + 1
       IN  \E ok \in BOOLEAN :
             /\ event' = [type |-> "post", run |-> x, scan_date |-> runs[x].scan_dates[k],
                          results |-> ResultsFor(runs[x].raw_results, runs[x].scan_dates, k),
                          ok |-> ok]
             /\ runs' = IF ok
                        THEN [runs EXCEPT ![x].posted = k,
                                          ![x].pc = IF k = Len(runs[x].scan_dates)
                                                    THEN "Done" ELSE "Publish"]
                        ELSE runs
    /\ UNCHANGED <<userPermits, indexPermits, userQueue, indexQueue, scans, cleanups,
                   leaked, load, orphans, cli>>

\* A child left behind by a timed-out unit exits.
ChildExit ==
    /\ orphans > 0
    /\ orphans' = orphans - 1
    /\ event' = NoEvent
    /\ UNCHANGED <<userPermits, indexPermits, userQueue, indexQueue, scans, cleanups,
                   leaked, runs, load, cli>>

\* Lines 353-409 and post_results: the next target date is posted; the
\* outcome of the POST is logged and the loop goes on.
Post(x) ==
    /\ runs[x].pc = "Publish"
    /\ LET k == runs[x].posted + 1
       IN  /\ \E ok \in BOOLEAN :
                event' = [type |-> "post", run |-> x, scan_date |-> runs[x].scan_dates[k],
                          results |-> ResultsFor(runs[x].raw_results, runs[x].scan_dates, k),
                          ok |-> ok]
           /\ runs' = [runs EXCEPT ![x].posted = k,
                                   ![x].pc = IF k = Len(runs[x].scan_dates)
                                             THEN "Done" ELSE "Publish"]
    /\ UNCHANGED <<userPermits, indexPermits, userQueue, indexQueue, scans, cleanups,
                   leaked, load, orphans, cli>>

(***************************************************************************)
(* The worker                                                              *)
(***************************************************************************)

\* main(): the state is built once, no request has arrived.
Init ==
    /\ userPermits = UserCapacity
    /\ indexPermits = IndexCapacity
    /\ userQueue = <<>>
    /\ indexQueue = <<>>
    /\ scans = <<>>
    /\ cleanups = 0
    /\ leaked = FALSE
    /\ runs = <<>>
    /\ event = NoEvent
    /\ load \in Workloads
    /\ orphans = 0
    /\ cli = NoCli

Next ==
    \/ ScanArrive
    \/ \E r \in 1..Len(scans) : ScanAdmit(r)
    \/ \E r \in 1..Len(scans) : ScanCloneExit(r)
    \/ \E r \in 1..Len(scans) : ScanAnalyzeExit(r)
    \/ CleanupRun
    \/ IndexArrive
    \/ \E x \in 1..Len(runs) : UnitStart(x)
    \/ \E x \in 1..Len(runs) : \E i \in 1..Len(runs[x].units) : UnitAdmit(x, i)
    \/ \E x \in 1..Len(runs) : \E i \in 1..Len(runs[x].units) : UnitCloneExit(x, i)
    \/ \E x \in 1..Len(runs) : \E i \in 1..Len(runs[x].units) : UnitCloneTimeout(x, i)
    \/ \E x \in 1..Len(runs) : \E i \in 1..Len(runs[x].units) : UnitAnalyzeExit(x, i)
    \/ \E x \in 1..Len(runs) : \E i \in 1..Len(runs[x].units) : UnitAnalyzeTimeout(x, i)
    \/ \E x \in 1..Len(runs) : Post(x)

Spec == Init /\ [][Next]_vars


(***************************************************************************)
(* Fairness: the runtime polls every task that can make progress, and a    *)
(* tokio::time::timeout deadline elapses unless its future completes       *)
(* first. Nothing bounds a subprocess that is awaited without a deadline   *)
(* (scan_handler, lines 99 and 122), and no request has to arrive.         *)
(***************************************************************************)

RunIds == 1..2
UnitIds == 1..MaxUnits
ScanIds == 1..MaxScans

IsUnit(x, i) == x <= Len(runs) /\ i <= Len(runs[x].units)

UnitProgress(x, i) ==
    /\ IsUnit(x, i)
    /\ \/ UnitAdmit(x, i)
       \/ UnitCloneExit(x, i) \/ UnitCloneTimeout(x, i)
       \/ UnitAnalyzeExit(x, i) \/ UnitAnalyzeTimeout(x, i)

RunProgress(x) == x <= Len(runs) /\ (UnitStart(x) \/ Post(x))

ScanProgress(r) == r <= Len(scans) /\ ScanAdmit(r)

Fairness ==
    /\ \A x \in RunIds : WF_vars(RunProgress(x))
    /\ \A x \in RunIds : \A i \in UnitIds : WF_vars(UnitProgress(x, i))
    /\ \A r \in ScanIds : WF_vars(ScanProgress(r))
    /\ WF_vars(CleanupRun)

FairSpec == Spec /\ Fairness


(***************************************************************************)
(* Publication alone: a batch run whose passes are over, with the          *)
(* documents of its repositories drawn from bounded sets.                  *)
(***************************************************************************)

AggDates == [k \in 1..3 |-> FormatDate(<<2025, 1, k>>)]

\* the elements a daily_commits array is made of; the last one lacks its date
DayJsons ==
    { [date |-> Some(AggDates[k]), total |-> Some(c[1]), ai |-> Some(c[2])] :
        k \in 1..3, c \in {<<0, 0>>, <<1, 1>>, <<2, 1>>} }
    \cup { [date |-> None, total |-> Some(1), ai |-> Some(1)] }

DayArrays == UNION { [1..n -> DayJsons] : n \in 0..MaxDays }

\* target dates: a range, an explicit list out of order, a single date
AggScanDates ==
    { AggDates, <<AggDates[3], AggDates[1]>>, <<AggDates[2]>> }

\* The run after its passes: the first repository succeeded with the drawn
\* daily_commits, the second with a document that has none of the fields.
PublishingRun(days, scan_dates) ==
    [NewRun(<<PanelSlugs[1], PanelSlugs[3]>>, scan_dates) EXCEPT
        !.pc = "Publish", !.next = 3,
        !.units = [j \in 1..2 |->
                      [st |-> "Done", tmo |-> <<PassTimeouts("Pass1")>>, out |-> <<TRUE>>,
                       log |-> <<>>]],
        !.raw_results =
            << [slug |-> PanelSlugs[1],
                data |-> [total_commits |-> Some(5), ai_commits |-> Some(4),
                          daily_commits |-> Some(days)]],
               [slug |-> PanelSlugs[3], data |-> DocBare] >>]

InitBackfill ==
    /\ userPermits = UserCapacity
    /\ indexPermits = IndexCapacity
    /\ userQueue = <<>>
    /\ indexQueue = <<>>
    /\ scans = <<>>
    /\ cleanups = 0
    /\ leaked = FALSE
    /\ \E days \in DayArrays, scan_dates \in AggScanDates :
          runs = <<PublishingRun(days, scan_dates)>>
    /\ event = NoEvent
    /\ load = [scans |-> 0, runs |-> 0, units |-> 0, wide |-> TRUE, dates |-> FALSE, children |-> FALSE, refs |-> FALSE, trace |-> FALSE]
    /\ orphans = 0
    /\ cli = NoCli

NextBackfill == \E x \in 1..Len(runs) : Post(x)

SpecBackfill == InitBackfill /\ [][NextBackfill]_vars


(***************************************************************************)
(* The acknowledgment alone: one /index-scan request over DateRequests.    *)
(***************************************************************************)

InitDates ==
    /\ userPermits = UserCapacity
    /\ indexPermits = IndexCapacity
    /\ userQueue = <<>>
    /\ indexQueue = <<>>
    /\ scans = <<>>
    /\ cleanups = 0
    /\ leaked = FALSE
    /\ runs = <<>>
    /\ event = NoEvent
    /\ load = [scans |-> 0, runs |-> 1, units |-> 1, wide |-> FALSE, dates |-> TRUE, children |-> FALSE, refs |-> FALSE, trace |-> FALSE]
    /\ orphans = 0
    /\ cli = NoCli

NextDates == IndexArrive

SpecDates == InitDates /\ [][NextDates]_vars


(***************************************************************************)
(* The batch with its child processes followed: two runs that together     *)
(* exceed the index pool.                                                  *)
(***************************************************************************)

InitChildren ==
    /\ userPermits = UserCapacity
    /\ indexPermits = IndexCapacity
    /\ userQueue = <<>>
    /\ indexQueue = <<>>
    /\ scans = <<>>
    /\ cleanups = 0
    /\ leaked = FALSE
    /\ runs = <<>>
    /\ event = NoEvent
    /\ load = [scans |-> 0, runs |-> 2, units |-> MaxUnits, wide |-> FALSE,
               dates |-> FALSE, children |-> TRUE, refs |-> FALSE, trace |-> FALSE]
    /\ orphans = 0
    /\ cli = NoCli

NextChildren ==
    \/ IndexArrive
    \/ \E x \in 1..Len(runs) : UnitStart(x)
    \/ \E x \in 1..Len(runs) : \E i \in 1..Len(runs[x].units) : UnitAdmit(x, i)
    \/ \E x \in 1..Len(runs) : \E i \in 1..Len(runs[x].units) : UnitCloneExit(x, i)
    \/ \E x \in 1..Len(runs) : \E i \in 1..Len(runs[x].units) : UnitCloneTimeout(x, i)
    \/ \E x \in 1..Len(runs) : \E i \in 1..Len(runs[x].units) : UnitAnalyzeExit(x, i)
    \/ \E x \in 1..Len(runs) : \E i \in 1..Len(runs[x].units) : UnitAnalyzeTimeout(x, i)
    \/ ChildExit
    \/ \E x \in 1..Len(runs) : Post(x)

SpecChildren == InitChildren /\ [][NextChildren]_vars


(***************************************************************************)
(* The /scan validator on one request over the repo references.            *)
(***************************************************************************)

InitRefs ==
    /\ userPermits = UserCapacity
    /\ indexPermits = IndexCapacity
    /\ userQueue = <<>>
    /\ indexQueue = <<>>
    /\ scans = <<>>
    /\ cleanups = 0
    /\ leaked = FALSE
    /\ runs = <<>>
    /\ event = NoEvent
    /\ load = [scans |-> 1, runs |-> 0, units |-> 0, wide |-> FALSE,
               dates |-> FALSE, children |-> FALSE, refs |-> TRUE, trace |-> FALSE]
    /\ orphans = 0
    /\ cli = NoCli

NextRefs == ScanArrive

SpecRefs == InitRefs /\ [][NextRefs]_vars


(***************************************************************************)
(* The command-line scanner: clone_for_analysis (scanner/remote.rs)        *)
(***************************************************************************)

\* s.len() <= 255
MaxNameLen == 255

\* c.is_ascii_alphanumeric() || c == '-' || c == '_' || c == '.'
IsNameChar(c) ==
    \/ c \in 48..57
    \/ c \in 65..90
    \/ c \in 97..122
    \/ c \in {45, 95, 46}

\* str::len(): the length of the UTF-8 encoding in bytes
ByteLen(s) ==
    Len(s) + Cardinality({ i \in 1..Len(s) : s[i] >= 128 })
           + Cardinality({ i \in 1..Len(s) : s[i] >= 2048 })
           + Cardinality({ i \in 1..Len(s) : s[i] >= 65536 })

\* a name check that has no limit of length
is_valid_name_of_any_length(s) ==
    /\ s # <<>>
    /\ \A i \in 1..Len(s) : IsNameChar(s[i])

is_valid_github_name(s) ==
    /\ s # <<>>
    /\ ByteLen(s) <= MaxNameLen
    /\ \A i \in 1..Len(s) : IsNameChar(s[i])

Repeat(c, n) == [i \in 1..n |-> c]

\* "", "a", "next.js", "..", "../etc", "u/r", "u r", "u@r", "e" with an acute
\* accent, and 'a' 255 and 256 times
CloneNames ==
    { <<>>, <<97>>, <<110, 101, 120, 116, 46, 106, 115>>, <<46, 46>>,
      <<46, 46, 47, 101, 116, 99>>, <<117, 47, 114>>, <<117, 32, 114>>, <<117, 64, 114>>,
      <<233>>, Repeat(97, MaxNameLen), Repeat(97, MaxNameLen + 1) }

CloneErr(msg, arg) == [ok |-> FALSE, msg |-> msg, arg |-> arg]

\* clone_for_analysis(user, repo), from the call to its return. `exists`
\* tells whether the directory of tmp_dir is on disk, `removed` whether
\* remove_dir_all was called, `git` whether git was spawned.
clone_for_analysis ==
    /\ cli.op = "clone"
    /\ cli.pc = "call"
    /\ LET user == cli.user
           repo == cli.repo
           ret(c, result) == [c EXCEPT !.pc = "done", !.result = result]
       IN  IF ~is_valid_github_name(user)
           THEN cli' = ret(cli, CloneErr("Invalid GitHub username: ", user))
           ELSE IF ~is_valid_github_name(repo)
           THEN cli' = ret(cli, CloneErr("Invalid GitHub repo name: ", repo))
           ELSE \/ /\ cli.exists
                   /\ \E e \in OsErrors :
                        cli' = ret([cli EXCEPT !.removed = TRUE], CloneErr(e, <<>>))
                \/ LET clean == [cli EXCEPT !.removed = cli.exists, !.exists = FALSE]
                   IN  \/ \E e \in OsErrors : cli' = ret(clean, CloneErr(e, <<>>))
                       \/ \E left \in BOOLEAN :
                            cli' = ret([clean EXCEPT !.git = TRUE, !.exists = left],
                                       CloneErr("Failed to clone ", user \o <<47>> \o repo))
                       \/ cli' = ret([clean EXCEPT !.git = TRUE, !.exists = TRUE],
                                     [ok |-> TRUE, msg |-> "", arg |-> user \o <<45>> \o repo])
    /\ UNCHANGED <<userPermits, indexPermits, userQueue, indexQueue, scans, cleanups,
                   leaked, runs, event, load, orphans>>

InitClone ==
    /\ userPermits = UserCapacity
    /\ indexPermits = IndexCapacity
    /\ userQueue = <<>>
    /\ indexQueue = <<>>
    /\ scans = <<>>
    /\ cleanups = 0
    /\ leaked = FALSE
    /\ runs = <<>>
    /\ event = NoEvent
    /\ load = [scans |-> 0, runs |-> 0, units |-> 0, wide |-> FALSE,
               dates |-> FALSE, children |-> FALSE, refs |-> FALSE, trace |-> FALSE]
    /\ orphans = 0
    /\ \E user \in CloneNames, repo \in CloneNames, exists \in BOOLEAN :
          cli = [op |-> "clone", pc |-> "call", user |-> user, repo |-> repo,
                 existed |-> exists, exists |-> exists, removed |-> FALSE, git |-> FALSE,
                 result |-> [ok |-> FALSE, msg |-> "", arg |-> <<>>]]

NextClone == clone_for_analysis

SpecClone == InitClone /\ [][NextClone]_vars


(***************************************************************************)
(* The command-line scanner: find_git_repos (scanner/discover.rs)          *)
(***************************************************************************)

\* "node_modules", "target", ".git", "vendor", "dist", "build", ".next"
SKIP_DIRS ==
    { <<110, 111, 100, 101, 95, 109, 111, 100, 117, 108, 101, 115>>,
      <<116, 97, 114, 103, 101, 116>>,
      <<46, 103, 105, 116>>,
      <<118, 101, 110, 100, 111, 114>>,
      <<100, 105, 115, 116>>,
      <<98, 117, 105, 108, 100>>,
      <<46, 110, 101, 120, 116>> }

\* name.starts_with('.')
IsHidden(name) == name # <<>> /\ name[1] = 46

\* !SKIP_DIRS.contains(&name.as_str()) && !name.starts_with('.')
Entered(name) == name \notin SKIP_DIRS /\ ~IsHidden(name)

\* depth >= max_depth
AtMaxDepth(depth, max_depth) == depth >= max_depth

\* depth > max_depth
BeyondMaxDepth(depth, max_depth) == depth > max_depth

\* A file system is the set `dirs` of its directories below the root, each
\* a path of names, the set `gits` of the directories that hold a .git
\* directory, and the set `locked` of those read_dir fails on.
\* read_dir(dir): the directories among the entries of dir
Entries(fs, dir) ==
    { p \in fs.dirs : Len(p) = Len(dir) + 1 /\ SubSeq(p, 1, Len(dir)) = dir }

\* walk_for_repos: the paths pushed to `repos` by the walk of dir. The order
\* of the pushes is that of read_dir, which the platform leaves open.
RECURSIVE walk_for_repos(_, _, _, _)
walk_for_repos(fs, dir, depth, max_depth) ==
    IF BeyondMaxDepth(depth, max_depth) THEN {}
    ELSE IF dir \in fs.gits THEN { dir }
    ELSE IF dir \in fs.locked THEN {}
    ELSE UNION { walk_for_repos(fs, p, depth + 1, max_depth) :
                    p \in { q \in Entries(fs, dir) : Entered(q[Len(q)]) } }

find_git_repos(fs, max_depth) == walk_for_repos(fs, <<>>, 0, max_depth)

\* directory names: "a", ".h", "dist"
DirNames == { <<97>>, <<46, 104>>, <<100, 105, 115, 116>> }

\* the paths of at most MaxTreeDepth names below the root, and the root
TreePaths == UNION { [1..n -> DirNames] : n \in 0..MaxTreeDepth }

Prefixes(p) == { SubSeq(p, 1, k) : k \in 0..Len(p) }

\* The file system made of the repositories `gits`, of the directories that
\* lead to them, and of the directories `locked` that cannot be listed.
FileSystem(gits, locked) ==
    [dirs |-> UNION { Prefixes(p) : p \in gits } \ { <<>> }, gits |-> gits, locked |-> locked]

\* find_git_repos(root, max_depth), from the call to its return
find_git_repos_call ==
    /\ cli.op = "discover"
    /\ cli.pc = "call"
    /\ cli' = [cli EXCEPT !.pc = "done", !.repos = find_git_repos(cli.fs, cli.max_depth)]
    /\ UNCHANGED <<userPermits, indexPermits, userQueue, indexQueue, scans, cleanups,
                   leaked, runs, event, load, orphans>>

InitDiscover ==
    /\ userPermits = UserCapacity
    /\ indexPermits = IndexCapacity
    /\ userQueue = <<>>
    /\ indexQueue = <<>>
    /\ scans = <<>>
    /\ cleanups = 0
    /\ leaked = FALSE
    /\ runs = <<>>
    /\ event = NoEvent
    /\ load = [scans |-> 0, runs |-> 0, units |-> 0, wide |-> FALSE,
               dates |-> FALSE, children |-> FALSE, refs |-> FALSE, trace |-> FALSE]
    /\ orphans = 0
    /\ \E p \in TreePaths, q \in TreePaths, max_depth \in 0..MaxTreeDepth :
        \E gits \in { {}, { p, q } } :
          \E locked \in { {} } \cup { { d } : d \in UNION { Prefixes(r) : r \in gits } } :
            cli = [op |-> "discover", pc |-> "call", fs |-> FileSystem(gits, locked),
                   max_depth |-> max_depth, repos |-> {}]

NextDiscover == find_git_repos_call

SpecDiscover == InitDiscover /\ [][NextDiscover]_vars


(***************************************************************************)
(* One /scan request and one batch run with the steps of every unit        *)
(* followed; nothing waits for a permit.                                   *)
(***************************************************************************)

InitUnits ==
    /\ userPermits = UserCapacity
    /\ indexPermits = IndexCapacity
    /\ userQueue = <<>>
    /\ indexQueue = <<>>
    /\ scans = <<>>
    /\ cleanups = 0
    /\ leaked = FALSE
    /\ runs = <<>>
    /\ event = NoEvent
    /\ load = [scans |-> 1, runs |-> 1, units |-> 2, wide |-> TRUE,
               dates |-> FALSE, children |-> FALSE, refs |-> FALSE, trace |-> TRUE]
    /\ orphans = 0
    /\ cli = NoCli

NextUnits ==
    \/ ScanArrive
    \/ \E r \in 1..Len(scans) : ScanCloneExit(r)
    \/ \E r \in 1..Len(scans) : ScanAnalyzeExit(r)
    \/ CleanupRun
    \/ IndexArrive
    \/ \E x \in 1..Len(runs) : UnitStart(x)
    \/ \E x \in 1..Len(runs) : \E i \in 1..Len(runs[x].units) : UnitCloneExit(x, i)
    \/ \E x \in 1..Len(runs) : \E i \in 1..Len(runs[x].units) : UnitCloneTimeout(x, i)
    \/ \E x \in 1..Len(runs) : \E i \in 1..Len(runs[x].units) : UnitAnalyzeExit(x, i)
    \/ \E x \in 1..Len(runs) : \E i \in 1..Len(runs[x].units) : UnitAnalyzeTimeout(x, i)
    \/ \E x \in 1..Len(runs) : Post(x)

SpecUnits == InitUnits /\ [][NextUnits]_vars

(***************************************************************************)
(* Properties                                                              *)
(***************************************************************************)

Active == {"Cloning", "Analyzing"}

\* batch units, over all runs, that are cloning or analyzing
IndexActive ==
    Cardinality({p \in RunIds \X UnitIds : IsUnit(p[1], p[2])
                                           /\ runs[p[1]].units[p[2]].st \in Active})

\* /scan requests that are cloning or analyzing
ScanActive == Cardinality({r \in 1..Len(scans) : scans[r].st \in Active})

\* C1: at every moment at most 3 batch units, summed over all the batch runs
\* in flight, and at most 2 /scan requests are in the Cloning or Analyzing
\* state, however many are pending.
C1_PoolBound == IndexActive <= 3 /\ ScanActive <= 2

\* Two batch runs keep the index pool full while a further unit waits.
C1_Witness == IndexActive = 3 /\ indexQueue # <<>> /\ Len(runs) = 2

\* C2: once a scan unit has returned, whatever its outcome, its workspace
\* directory does not exist any more.
C2_WorkspaceRemoved ==
    /\ ~leaked
    /\ cleanups = 0
    /\ event.type = "scan" => ~event.dir

\* C3: no clone is started for a repository reference that was not first
\* matched against the safe character class: the clone URL of a /scan
\* request and the slug of every batch unit that has entered
\* scan_single_repo_raw are well formed.
C3_CloneValidated ==
    /\ \A r \in 1..Len(scans) :
          scans[r].st \in Active => MatchGithubUrl(scans[r].repo_url)
    /\ \A x \in 1..Len(runs) : \A i \in 1..Len(runs[x].units) :
          runs[x].units[i].tmo # <<>> => MatchRepoSlug(runs[x].repos[i])

AllReturned ==
    /\ \A r \in 1..Len(scans) : scans[r].st = "Done"
    /\ \A x \in 1..Len(runs) : runs[x].pc \in {"Publish", "Done"}

\* C9: for each pool the free permits plus the permits held by running
\* units make up the capacity (2 and 3), and once every request and run has
\* finished, on whatever exit paths, both pools are back at full capacity.
C9_PermitsConserved ==
    /\ userPermits + ScanActive = 2
    /\ indexPermits + IndexActive = 3
    /\ AllReturned => userPermits = 2 /\ indexPermits = 3

\* A run has finished in which a unit failed both passes.
C9_Witness ==
    /\ AllReturned
    /\ \E x \in 1..Len(runs) : \E i \in 1..Len(runs[x].units) :
          runs[x].units[i].out = <<FALSE, FALSE>>

Published(run) == run.pc \in {"Publish", "Done"}

\* a unit whose result is kept: success in pass 1, or failure then success
Kept(u) == u.out # <<>> /\ (u.out[1] \/ (Len(u.out) = 2 /\ u.out[2]))

KeptUnits(run) == {i \in 1..Len(run.units) : Kept(run.units[i])}

\* C4: the final result set of a batch run holds a repository exactly when
\* it succeeded in pass 1, or failed pass 1 and succeeded in pass 2; a
\* repository that failed both passes has no entry.
C4_FinalResultSet ==
    \A x \in 1..Len(runs) :
        Published(runs[x]) =>
            /\ Len(runs[x].raw_results) = Cardinality(KeptUnits(runs[x]))
            /\ {runs[x].raw_results[k].slug : k \in 1..Len(runs[x].raw_results)}
                  = {runs[x].repos[i] : i \in KeptUnits(runs[x])}

\* Of three repositories the first and the third fail pass 1, the third is
\* recovered in pass 2 and the first is not.
C4_Witness ==
    \E x \in 1..Len(runs) :
        /\ Published(runs[x])
        /\ Len(runs[x].units) = 3
        /\ runs[x].units[1].out = <<FALSE, FALSE>>
        /\ runs[x].units[2].out = <<TRUE>>
        /\ runs[x].units[3].out = <<FALSE, TRUE>>
        /\ Len(runs[x].raw_results) = 2

\* a unit of pass 2 has started: it waits for a permit or is past acquire()
Pass2Started(u) ==
    \/ Len(u.tmo) = 2
    \/ Len(u.out) = 1 /\ u.st = "Waiting"

\* C5: within a batch run no unit of pass 2 starts (waits for a permit,
\* acquires one or spawns a clone) before every unit of pass 1 has returned.
C5_Pass2AfterPass1 ==
    \A x \in 1..Len(runs) :
        (\E i \in 1..Len(runs[x].units) : Pass2Started(runs[x].units[i]))
            => \A j \in 1..Len(runs[x].units) : Len(runs[x].units[j].out) >= 1

\* A retried unit is cloning while another unit of its pass has not started.
C5_Witness ==
    \E x \in 1..Len(runs) : \E i, j \in 1..Len(runs[x].units) :
        /\ Len(runs[x].units[i].tmo) = 2 /\ runs[x].units[i].st = "Cloning"
        /\ runs[x].units[j].st = "Pending"

\* C6: every panel repository is scanned at least once and at most twice;
\* pass 2 runs only on a non-empty failure list, takes exactly the
\* identifiers that failed pass 1, and doubles the timeouts (240/120 against
\* 120/60); there is no third attempt.
C6_AtMostTwoAttempts ==
    \A x \in 1..Len(runs) :
        LET run == runs[x]
            failed1 == {i \in 1..Len(run.units) :
                            run.units[i].out # <<>> /\ ~run.units[i].out[1]}
        IN  /\ \A i \in 1..Len(run.units) :
                LET u == run.units[i]
                IN  /\ Len(u.tmo) <= 2
                    /\ Len(u.tmo) >= 1 => u.tmo[1] = <<120, 60>>
                    /\ Len(u.tmo) = 2 => i \in failed1 /\ u.tmo[2] = <<240, 120>>
                    /\ Published(run) => Len(u.tmo) >= 1 /\ (Len(u.tmo) = 2 <=> i \in failed1)
            /\ run.pc = "Pass2" =>
                    /\ run.work # <<>>
                    /\ {run.work[k] : k \in 1..Len(run.work)} = failed1
                    /\ Len(run.work) = Cardinality(failed1)

\* A run has finished with one repository scanned once and one twice.
C6_Witness ==
    \E x \in 1..Len(runs) : \E i, j \in 1..Len(runs[x].units) :
        /\ runs[x].pc = "Done"
        /\ Len(runs[x].units[i].tmo) = 1
        /\ Len(runs[x].units[j].tmo) = 2

\* C7: every scan unit, interactive or batch, that is cloning or analyzing
\* eventually returns, whether or not its subprocess ever exits.
C7_EveryUnitReturns ==
    /\ \A r \in ScanIds :
          (r <= Len(scans) /\ scans[r].st \in Active)
              ~> (r <= Len(scans) /\ scans[r].st = "Done")
    /\ \A x \in RunIds : \A i \in UnitIds :
          (IsUnit(x, i) /\ runs[x].units[i].st \in Active)
              ~> (IsUnit(x, i) /\ runs[x].units[i].st \notin Active)

\* C8: on both routes a request whose Authorization header is not exactly
\* "Bearer <secret>" (a missing header included) is answered 401, and its
\* handler does nothing else: no permit is taken or waited for, no
\* subprocess is spawned, no panel is fetched, no batch task is launched.
C8_UnauthorizedRejected ==
    [][ (event'.type \in {"scan", "index"} /\ event'.auth # BearerPrefix \o AuthToken)
          => /\ event'.status = 401
             /\ UNCHANGED <<userPermits, indexPermits, userQueue, indexQueue, runs,
                            cleanups, leaked>>
             /\ event'.type = "scan" =>
                    /\ ~event'.acquired
                    /\ event'.spawned = 0
                    /\ scans' = Append(scans, ScanDone)
             /\ event'.type = "index" =>
                    /\ ~event'.fetched
                    /\ ~event'.launched
                    /\ scans' = scans ]_vars

\* An /index-scan request without Authorization header has been answered 401.
C8_Witness == event.type = "index" /\ event.status = 401 /\ event.auth = <<>>

\* lexicographic a <= b, by the first position where the strings differ
LexLe(a, b) ==
    \/ a = b
    \/ \E k \in 1..Len(b) :
          /\ k <= Len(a) + 1
          /\ \A m \in 1..(k - 1) : a[m] = b[m]
          /\ k > Len(a) \/ a[k] < b[k]

RECURSIVE SumOver(_, _)
SumOver(S, f) ==
    IF S = {} THEN 0
    ELSE LET k == CHOOSE k \in S : TRUE
         IN  f[k] + SumOver(S \ {k}, f)

\* the day-entries of a document dated on or before d, as indices into its
\* daily_commits array
EntriesUpTo(data, d) ==
    IF data.daily_commits = None THEN {}
    ELSE LET arr == Unwrap(data.daily_commits)
         IN  {k \in 1..Len(arr) :
                 /\ arr[k].date # None /\ arr[k].total # None /\ arr[k].ai # None
                 /\ LexLe(Unwrap(arr[k].date), d)}

TotalUpTo(data, d) ==
    IF EntriesUpTo(data, d) = {} THEN 0
    ELSE SumOver(EntriesUpTo(data, d),
                 [k \in EntriesUpTo(data, d) |-> Unwrap(Unwrap(data.daily_commits)[k].total)])

AiUpTo(data, d) ==
    IF EntriesUpTo(data, d) = {} THEN 0
    ELSE SumOver(EntriesUpTo(data, d),
                 [k \in EntriesUpTo(data, d) |-> Unwrap(Unwrap(data.daily_commits)[k].ai)])

\* C10: in backfill mode the total_commits and ai_commits published for a
\* target date d and a repository are the sums of `total` and `ai` over
\* exactly the day-entries of that repository dated <= d, whatever the order
\* or sparsity of the entries.
C10_BackfillSums ==
    (event.type = "post" /\ Len(runs[event.run].scan_dates) > 1) =>
        LET raw == runs[event.run].raw_results
            d == event.scan_date
        IN  /\ \A k \in 1..Len(event.results) :
                  \E j \in 1..Len(raw) :
                      /\ event.results[k].repo_slug = raw[j].slug
                      /\ event.results[k].total_commits = TotalUpTo(raw[j].data, d)
                      /\ event.results[k].ai_commits = AiUpTo(raw[j].data, d)
            /\ \A j \in 1..Len(raw) :
                  TotalUpTo(raw[j].data, d) > 0 =>
                      \E k \in 1..Len(event.results) :
                          /\ event.results[k].repo_slug = raw[j].slug
                          /\ event.results[k].total_commits = TotalUpTo(raw[j].data, d)
                          /\ event.results[k].ai_commits = AiUpTo(raw[j].data, d)

\* Entries out of order, one of them on the target date itself: for
\* 2025-01-02 the entries of 01-02 and 01-01 count and that of 01-03 does not.
C10_Witness ==
    /\ event.type = "post"
    /\ event.scan_date = AggDates[2]
    /\ Len(runs[event.run].scan_dates) = 3
    /\ runs[event.run].raw_results[1].data.daily_commits =
          Some(<< [date |-> Some(AggDates[3]), total |-> Some(2), ai |-> Some(1)],
                  [date |-> Some(AggDates[2]), total |-> Some(1), ai |-> Some(1)],
                  [date |-> Some(AggDates[1]), total |-> Some(2), ai |-> Some(1)] >>)
    /\ event.results = << [repo_slug |-> PanelSlugs[1], total_commits |-> 3, ai_commits |-> 2] >>

\* C11: in backfill mode a repository whose day-entries dated <= d sum to
\* zero total commits (one without any day-entry included) is absent from
\* the result set published for d, and every repository in a backfill
\* result set has total_commits > 0.
C11_ZeroTotalsDropped ==
    (event.type = "post" /\ Len(runs[event.run].scan_dates) > 1) =>
        LET raw == runs[event.run].raw_results
        IN  /\ \A j \in 1..Len(raw) :
                  TotalUpTo(raw[j].data, event.scan_date) = 0 =>
                      \A k \in 1..Len(event.results) :
                          event.results[k].repo_slug # raw[j].slug
            /\ \A k \in 1..Len(event.results) : event.results[k].total_commits > 0

\* A repository whose only commits are dated after the target date, next to
\* one without daily_commits: the result set of 2025-01-01 is empty.
C11_Witness ==
    /\ event.type = "post"
    /\ event.scan_date = AggDates[1]
    /\ Len(runs[event.run].scan_dates) = 3
    /\ runs[event.run].raw_results[1].data.daily_commits =
          Some(<< [date |-> Some(AggDates[1]), total |-> Some(0), ai |-> Some(0)],
                  [date |-> Some(AggDates[3]), total |-> Some(2), ai |-> Some(1)] >>)
    /\ runs[event.run].raw_results[2].data.daily_commits = None
    /\ event.results = <<>>

\* the daily_commits of the repository with entries on 2025-01-01 and 2025-01-03
SparseDays ==
    << [date |-> Some(FormatDate(<<2025, 1, 1>>)), total |-> Some(2), ai |-> Some(1)],
       [date |-> Some(FormatDate(<<2025, 1, 3>>)), total |-> Some(1), ai |-> Some(1)] >>

\* what is expected for the k-th date of 2025-01-01..2025-01-03
CarriedForward == << <<2, 1>>, <<2, 1>>, <<3, 2>> >>

\* C12: for the range 2025-01-01..2025-01-03, one repository with entries
\* (2025-01-01, 2, 1) and (2025-01-03, 1, 1) and another without entries,
\* exactly three result sets are published: {2, 1} for 2025-01-01, the
\* carried-forward {2, 1} for 2025-01-02 and {3, 2} for 2025-01-03, the
\* repository without entries being in none of them.
C12_CarriedForward ==
    \A x \in 1..Len(runs) :
        LET run == runs[x]
        IN  ( /\ run.scan_dates = Unwrap(generate_date_range(FormatDate(<<2025, 1, 1>>),
                                                             FormatDate(<<2025, 1, 3>>)))
              /\ Len(run.raw_results) = 2
              /\ run.raw_results[1].data.daily_commits = Some(SparseDays)
              /\ DaysOf(run.raw_results[2].data) = <<>> )
            => /\ run.posted <= 3
               /\ run.pc = "Done" <=> run.posted = 3
               /\ (event.type = "post" /\ event.run = x) =>
                    /\ run.posted >= 1
                    /\ event.scan_date = FormatDate(<<2025, 1, run.posted>>)
                    /\ event.results =
                          << [repo_slug |-> run.raw_results[1].slug,
                              total_commits |-> CarriedForward[run.posted][1],
                              ai_commits |-> CarriedForward[run.posted][2]] >>

\* The result set of 2025-01-02, a date without entry, has been posted.
C12_Witness ==
    /\ event.type = "post"
    /\ event.scan_date = FormatDate(<<2025, 1, 2>>)
    /\ runs[event.run].posted = 2
    /\ Len(runs[event.run].scan_dates) = 3
    /\ runs[event.run].raw_results[1].data.daily_commits = Some(SparseDays)
    /\ event.results = << [repo_slug |-> PanelSlugs[1], total_commits |-> 2, ai_commits |-> 1] >>

\* The proleptic Gregorian calendar, independently of the worker's date code.
LeapYear(y) == y % 4 = 0 /\ (y % 100 # 0 \/ y % 400 = 0)

DaysBeforeMonth == <<0, 31, 59, 90, 120, 151, 181, 212, 243, 273, 304, 334>>

MonthLength == <<31, 28, 31, 30, 31, 30, 31, 31, 30, 31, 30, 31>>

YearOf(s) == (s[1] - 48) * 1000 + (s[2] - 48) * 100 + (s[3] - 48) * 10 + (s[4] - 48)

MonthOf(s) == (s[6] - 48) * 10 + (s[7] - 48)

DayOf(s) == (s[9] - 48) * 10 + (s[10] - 48)

\* s is YYYY-MM-DD in ASCII digits and names a day of the calendar
CalendarDate(s) ==
    /\ Len(s) = 10
    /\ s[5] = 45 /\ s[8] = 45
    /\ \A i \in {1, 2, 3, 4, 6, 7, 9, 10} : s[i] \in 48..57
    /\ MonthOf(s) \in 1..12
    /\ DayOf(s) >= 1
    /\ DayOf(s) <= MonthLength[MonthOf(s)]
                     + (IF MonthOf(s) = 2 /\ LeapYear(YearOf(s)) THEN 1 ELSE 0)

\* the number of the day s, counted from 0001-01-01
DayNumber(s) ==
    LET y == YearOf(s) - 1
    IN  365 * y + (y \div 4) - (y \div 100) + (y \div 400)
        + DaysBeforeMonth[MonthOf(s)]
        + (IF MonthOf(s) > 2 /\ LeapYear(YearOf(s)) THEN 1 ELSE 0)
        + DayOf(s)

\* C13: for valid dates from <= to the generated range has
\* (to - from).days + 1 elements, starts at from, ends at to, and each
\* element is the day after the previous one (a single element when
\* from = to); for from > to or an unparsable date there is no range and
\* /index-scan answers 400.
C13_DateRange ==
    ( /\ event.type = "index"
      /\ event.status # 401
      /\ event.req.from_date # None
      /\ event.req.to_date # None )
    => LET f == Unwrap(event.req.from_date)
           t == Unwrap(event.req.to_date)
       IN  IF CalendarDate(f) /\ CalendarDate(t) /\ DayNumber(f) <= DayNumber(t)
           THEN /\ event.status # 400
                /\ event.launched =>
                     LET r == runs[Len(runs)].scan_dates
                     IN  /\ r = event.body.scan_dates
                         /\ Len(r) = DayNumber(t) - DayNumber(f) + 1
                         /\ r[1] = f
                         /\ r[Len(r)] = t
                         /\ \A i \in 1..Len(r) : CalendarDate(r[i])
                         /\ \A i \in 1..(Len(r) - 1) :
                               DayNumber(r[i + 1]) = DayNumber(r[i]) + 1
           ELSE /\ event.status = 400
                /\ ~event.launched
                /\ runs = <<>>

\* The range over the leap day: 2024-02-28, 2024-02-29, 2024-03-01.
C13_Witness ==
    /\ event.type = "index"
    /\ event.launched
    /\ event.req.from_date = Some(FormatDate(<<2024, 2, 28>>))
    /\ event.req.to_date = Some(FormatDate(<<2024, 3, 1>>))
    /\ runs[1].scan_dates = << FormatDate(<<2024, 2, 28>>), FormatDate(<<2024, 2, 29>>),
                               FormatDate(<<2024, 3, 1>>) >>

\* C14: the target dates come from at most one of the two request forms:
\* with from_date and to_date both present they are the inclusive range and
\* scan_dates is ignored; otherwise a non-empty scan_dates is used as given;
\* otherwise (neither form, or an empty scan_dates) they are the single
\* date "today".
C14_OneForm ==
    (event.type = "index" /\ event.launched) =>
        LET req == event.req
            dates == runs[Len(runs)].scan_dates
        IN  /\ dates = event.body.scan_dates
            /\ IF req.from_date # None /\ req.to_date # None
               THEN /\ dates[1] = Unwrap(req.from_date)
                    /\ dates[Len(dates)] = Unwrap(req.to_date)
                    /\ Len(dates) = DayNumber(Unwrap(req.to_date))
                                      - DayNumber(Unwrap(req.from_date)) + 1
               ELSE IF req.scan_dates # None /\ Unwrap(req.scan_dates) # <<>>
               THEN dates = Unwrap(req.scan_dates)
               ELSE dates = <<FormatDate(<<2026, 1, 15>>)>>

\* A request with a range and a scan_dates list has been acknowledged with
\* the dates of the range.
C14_Witness ==
    /\ event.type = "index"
    /\ event.launched
    /\ event.req.scan_dates = Some(<<FormatDate(<<2025, 3, 1>>), FormatDate(<<2025, 2, 28>>)>>)
    /\ event.req.from_date = Some(FormatDate(<<2024, 2, 29>>))
    /\ event.req.to_date = Some(FormatDate(<<2024, 3, 1>>))
    /\ event.body.scan_dates = << FormatDate(<<2024, 2, 29>>), FormatDate(<<2024, 3, 1>>) >>

\* C15: the delta summation is applied exactly when there is more than one
\* target date; with a single target date every successfully scanned
\* repository is published, with the total_commits and ai_commits fields of
\* its analyzer document unchanged.
C15_SingleDateTotals ==
    event.type = "post" =>
        LET raw == runs[event.run].raw_results
        IN  IF Len(runs[event.run].scan_dates) > 1
            THEN \A k \in 1..Len(event.results) :
                    \E j \in 1..Len(raw) :
                        /\ event.results[k].repo_slug = raw[j].slug
                        /\ event.results[k].total_commits = TotalUpTo(raw[j].data, event.scan_date)
                        /\ event.results[k].ai_commits = AiUpTo(raw[j].data, event.scan_date)
            ELSE /\ Len(event.results) = Len(raw)
                 /\ \A j \in 1..Len(raw) :
                        /\ event.results[j].repo_slug = raw[j].slug
                        /\ raw[j].data.total_commits # None =>
                              event.results[j].total_commits = Unwrap(raw[j].data.total_commits)
                        /\ raw[j].data.ai_commits # None =>
                              event.results[j].ai_commits = Unwrap(raw[j].data.ai_commits)

\* A single target date: the document's totals 5 and 4 are published although
\* its day-entries up to that date sum to 2 and 1.
C15_Witness ==
    /\ event.type = "post"
    /\ runs[event.run].scan_dates = <<AggDates[2]>>
    /\ runs[event.run].raw_results[1].data.daily_commits =
          Some(<< [date |-> Some(AggDates[1]), total |-> Some(2), ai |-> Some(1)] >>)
    /\ event.results[1] = [repo_slug |-> PanelSlugs[1], total_commits |-> 5, ai_commits |-> 4]
    /\ Len(event.results) = 2

\* C16: for every batch run exactly one POST is attempted per target date,
\* in the order of the list and never twice; a failed POST is not retried
\* and leaves the run publishing the remaining dates.
C16_OnePostPerDate ==
    /\ [](\A x \in 1..Len(runs) :
            /\ runs[x].posted <= Len(runs[x].scan_dates)
            /\ runs[x].pc = "Done" => runs[x].posted = Len(runs[x].scan_dates)
            /\ runs[x].pc = "Publish" => runs[x].posted < Len(runs[x].scan_dates))
    /\ [][ /\ event'.type = "post" =>
                /\ runs'[event'.run].posted = runs[event'.run].posted + 1
                /\ event'.scan_date = runs[event'.run].scan_dates[runs'[event'.run].posted]
           /\ \A x \in 1..Len(runs) :
                runs'[x].posted # runs[x].posted =>
                    event'.type = "post" /\ event'.run = x ]_vars

\* The POST for the first of two dates has failed and the run goes on to
\* the second.
C16_Witness ==
    /\ event.type = "post"
    /\ ~event.ok
    /\ Len(runs[event.run].scan_dates) = 2
    /\ runs[event.run].posted = 1
    /\ runs[event.run].pc = "Publish"

\* C17: /index-scan acknowledges with {status: "started", repos, quarter,
\* scan_dates} in the step that launches the batch task: when the response
\* is returned no unit of the run has started and nothing has been
\* published, and no run is launched without this response.
C17_AckWithoutWaiting ==
    [][ /\ (event'.type = "index" /\ event'.launched) =>
              LET n == Len(runs')
              IN  /\ n = Len(runs) + 1
                  /\ \A x \in 1..Len(runs) : runs'[x] = runs[x]
                  /\ runs'[n].pc = "Pass1"
                  /\ runs'[n].next = 1
                  /\ runs'[n].posted = 0
                  /\ runs'[n].scanned = <<>>
                  /\ runs'[n].raw_results = <<>>
                  /\ \A i \in 1..Len(runs'[n].units) :
                        /\ runs'[n].units[i].st = "Pending"
                        /\ runs'[n].units[i].tmo = <<>>
                        /\ runs'[n].units[i].out = <<>>
                  /\ event'.status = 200
                  /\ event'.body = [status |-> "started", repos |-> Len(runs'[n].repos),
                                    quarter |-> <<2026, 1>>,
                                    scan_dates |-> runs'[n].scan_dates]
                  /\ UNCHANGED <<indexPermits, indexQueue>>
        /\ Len(runs') # Len(runs) => event'.type = "index" /\ event'.launched ]_vars

\* A second request is acknowledged while the units of the first run are
\* cloning; none of its own units has started.
C17_Witness ==
    /\ event.type = "index"
    /\ event.launched
    /\ event.body.status = "started"
    /\ Len(runs) = 2
    /\ \E i \in 1..Len(runs[1].units) : runs[1].units[i].st = "Cloning"
    /\ runs[2].pc = "Pass1"
    /\ \A i \in 1..Len(runs[2].units) : runs[2].units[i].st = "Pending"

C19_FailureStatuses ==
    (event.type = "scan" /\ event.status \notin {200, 401}) =>
        IF ~MatchSinceDate(SinceOf(event.since)) \/ RepoUrl(event.repo) = None
        THEN event.status = 400 /\ event.spawned = 0
        ELSE event.status = 500

\* C20: the body of a failed /scan response is a fixed message of its
\* branch: it carries no part that varies with the stderr, OS error or
\* parser error text of the failure.
C20_GenericBodies ==
    (event.type = "scan" /\ event.status # 200) => event.detail = ""

\* C21: a /scan request that arrives (with a valid token) while both permits
\* of the interactive pool are held is answered 429.
C21_SaturatedRejected ==
    [][ ( /\ Len(scans') = Len(scans) + 1
          /\ userPermits = 0
          /\ ~(event'.type = "scan" /\ event'.status = 401) )
        => (event'.type = "scan" /\ event'.status = 429) ]_vars

\* C22: a /scan request whose repo reference or since date is malformed is
\* answered 400 without having acquired, or waited for, a permit of the
\* interactive pool.
C22_ValidatedBeforeAdmission ==
    /\ ( /\ event.type = "scan"
         /\ event.status = 400
         /\ ~MatchSinceDate(SinceOf(event.since)) \/ RepoUrl(event.repo) = None )
       => ~event.acquired
    /\ \A r \in 1..Len(scans) :
          scans[r].st = "Waiting" =>
              MatchSinceDate(SinceOf(scans[r].since)) /\ RepoUrl(scans[r].repo) # None

\* C23: the clone and analyzer children alive on behalf of a pool's units,
\* those of units that already returned on a timeout included, are never
\* more than the pool's capacity.
C23_ChildrenBounded ==
    /\ IndexActive + orphans <= IndexCapacity
    /\ ScanActive <= UserCapacity

\* The components of a reference between its '/' characters.
RECURSIVE SplitSlash(_)
SplitSlash(s) ==
    IF \A i \in 1..Len(s) : s[i] # 47
    THEN <<s>>
    ELSE LET k == CHOOSE i \in 1..Len(s) : s[i] = 47 /\ \A j \in 1..(i - 1) : s[j] # 47
         IN  <<SubSeq(s, 1, k - 1)>> \o SplitSlash(SubSeq(s, k + 1, Len(s)))

IsBareSlug(s) ==
    LET parts == SplitSlash(s)
    IN  /\ Len(parts) = 2
        /\ \A p \in 1..2 : /\ parts[p] # <<>>
                           /\ \A i \in 1..Len(parts[p]) : IsSafeChar(parts[p][i])

HasSpace(s) == \E i \in 1..Len(s) : s[i] = 32

HasDotDot(s) == LET parts == SplitSlash(s) IN \E p \in 1..Len(parts) : parts[p] = <<46, 46>>

ManySlashes(s) == ~StartsWith(s, HttpPrefix \o <<115, 58, 47, 47>>) /\ Len(SplitSlash(s)) > 2

\* The request of the last /scan answer passed validation: its clone was
\* attempted.
Accepted(r) == scans[r].st \in { "Cloning", "Analyzing" }

\* C24: the /scan validator accepts every bare slug owner/name over the safe
\* class, and rejects with 400 every reference with a space, with more than
\* one '/' in slug form, or with a '..' component.
C24_Validator ==
    /\ ( /\ event.type = "scan"
         /\ event.status = 400
         /\ MatchSinceDate(SinceOf(event.since)) )
       => ~IsBareSlug(event.repo)
    /\ \A r \in 1..Len(scans) :
          Accepted(r) => /\ ~HasSpace(scans[r].repo)
                         /\ ~ManySlashes(scans[r].repo)
                         /\ ~HasDotDot(scans[r].repo)

\* the two halves of C24, looked at one at a time
C24_BareSlugAccepted ==
    ( /\ event.type = "scan"
      /\ event.status = 400
      /\ MatchSinceDate(SinceOf(event.since)) )
    => ~IsBareSlug(event.repo)

C24_DotDotRejected == \A r \in 1..Len(scans) : Accepted(r) => ~HasDotDot(scans[r].repo)

C24_SpaceAndSlashesRejected ==
    \A r \in 1..Len(scans) :
        Accepted(r) => ~HasSpace(scans[r].repo) /\ ~ManySlashes(scans[r].repo)

\* target lists of two or three dates, in any order, repetitions included
TargetLists == UNION { [1..n -> { AggDates[k] : k \in 1..3 }] : n \in 2..3 }

HasCounts(data) == data.total_commits # None /\ data.ai_commits # None

\* C26: analyzer output that is not JSON, or is JSON without total_commits
\* and ai_commits, makes the unit a failure: no such document is among the
\* successes of a run, and no result is published from one.
C26_DefectiveOutputFails ==
    /\ \A x \in 1..Len(runs) :
          /\ \A j \in 1..Len(runs[x].raw_results) : HasCounts(runs[x].raw_results[j].data)
          /\ \A j \in 1..Len(runs[x].retry_results) : HasCounts(runs[x].retry_results[j].data)
    /\ event.type = "post" =>
          \A k \in 1..Len(event.results) :
              \A j \in 1..Len(runs[event.run].raw_results) :
                  runs[event.run].raw_results[j].slug = event.results[k].repo_slug
                      => HasCounts(runs[event.run].raw_results[j].data)

\* a name that is empty, longer than 255 characters, or has a character
\* outside [A-Za-z0-9_.-]
SafeNameChars == (48..57) \cup (65..90) \cup (97..122) \cup {95, 46, 45}

BadName(s) == s = <<>> \/ Len(s) > 255 \/ { s[i] : i \in 1..Len(s) } \ SafeNameChars # {}

\* C27: clone_for_analysis(user, repo) returns an error, removes no
\* directory and does not invoke git when user or repo is empty, longer than
\* 255 characters or has a character outside [A-Za-z0-9_.-].
C27_BadNamesRejected ==
    (cli.op = "clone" /\ cli.pc = "done" /\ (BadName(cli.user) \/ BadName(cli.repo))) =>
        /\ ~cli.result.ok
        /\ ~cli.removed
        /\ ~cli.git
        /\ cli.exists = cli.existed

\* a repo name of 256 characters after a valid user, the directory on disk
C27_Witness ==
    /\ cli.op = "clone"
    /\ cli.pc = "done"
    /\ cli.user = <<97>>
    /\ cli.repo = Repeat(97, 256)
    /\ cli.existed
    /\ cli.exists
    /\ ~cli.removed
    /\ cli.result = CloneErr("Invalid GitHub repo name: ", cli.repo)

\* p is above q in the tree
IsAncestor(p, q) == Len(p) < Len(q) /\ SubSeq(q, 1, Len(p)) = p

\* The repositories within max_depth levels of the root that the walk
\* reaches: every directory on the way to one, itself included, has a name
\* that is neither hidden nor in the skip list, and no directory above it
\* is a repository or cannot be listed.
ReachableRepos(fs, max_depth) ==
    { p \in fs.gits :
        /\ Len(p) <= max_depth
        /\ \A k \in 1..Len(p) : p[k] \notin SKIP_DIRS /\ p[k][1] # 46
        /\ \A q \in fs.gits \cup fs.locked : ~IsAncestor(q, p) }

\* C28: find_git_repos(root, max_depth) returns exactly the repositories
\* reachable from root within max_depth levels through directories neither
\* hidden nor skipped and outside every repository already found; no path
\* returned is above another, none is deeper than max_depth.
C28_ReposFound ==
    (cli.op = "discover" /\ cli.pc = "done") =>
        /\ cli.repos = ReachableRepos(cli.fs, cli.max_depth)
        /\ \A p \in cli.repos : \A q \in cli.repos : ~IsAncestor(p, q)
        /\ \A p \in cli.repos : Len(p) <= cli.max_depth

\* a repository at max_depth exactly, with a repository nested in it
C28_Witness ==
    /\ cli.op = "discover"
    /\ cli.pc = "done"
    /\ cli.max_depth = 2
    /\ cli.fs.gits = { <<<<97>>, <<97>>>>, <<<<97>>, <<97>>, <<97>>>> }
    /\ cli.fs.locked = {}
    /\ cli.repos = { <<<<97>>, <<97>>>> }

\* The steps of a unit are in order: the clone first, a step of the
\* analyzer only after a clone that exited zero, a parse only after an
\* analyzer that exited zero.
StepsInOrder(log) ==
    \A k \in 1..Len(log) :
        /\ log[k] \in {"clone_err", "clone_0", "clone_1", "clone_timeout"} => k = 1
        /\ log[k] \in {"analyze_err", "analyze_0", "analyze_1", "analyze_timeout"}
              => k = 2 /\ log[1] = "clone_0"
        /\ log[k] \in {"parse_ok", "parse_err"} => k = 3 /\ log[2] = "analyze_0"

StepsOfSuccess == <<"clone_0", "analyze_0", "parse_ok">>

\* C29: a unit goes Pending, Cloning, Analyzing, then Succeeded or Failed:
\* its analyzer is started only after its clone exited zero within the
\* deadline, it succeeds only after clone and analyzer both exited zero in
\* time and stdout parsed, and stdout of an analyzer that exited non-zero or
\* timed out is neither parsed nor returned.
C29_UnitStateMachine ==
    /\ \A x \in 1..Len(runs) : \A i \in 1..Len(runs[x].units) :
          LET u == runs[x].units[i]
          IN  /\ StepsInOrder(u.log)
              /\ u.st = "Cloning" => u.log = <<>>
              /\ u.st = "Analyzing" => u.log = <<"clone_0">>
              /\ (u.st = "Pending" /\ u.out = <<>>) => u.log = <<>>
              /\ (u.out # <<>> /\ u.out[Len(u.out)]) <=> u.log = StepsOfSuccess
    /\ \A r \in 1..Len(scans) :
          /\ scans[r].st = "Cloning" => scans[r].log = <<>>
          /\ scans[r].st = "Analyzing" => scans[r].log = <<"clone_0">>
    /\ event.type = "scan" =>
          /\ StepsInOrder(event.log)
          /\ event.status = 200 <=> event.log = StepsOfSuccess
          /\ event.data # None => event.status = 200

\* a unit whose analyzer timed out in pass 1 and that succeeded in pass 2
C29_Witness ==
    \E x \in 1..Len(runs) : \E i \in 1..Len(runs[x].units) :
        /\ runs[x].units[i].out = <<FALSE, TRUE>>
        /\ runs[x].units[i].log = StepsOfSuccess
        /\ runs[x].units[i].st = "Done"
        /\ \E j \in 1..Len(runs[x].units) :
              runs[x].units[j].log = <<"clone_0", "analyze_timeout">>

\* C30: a request or a batch unit that waits for a permit is eventually
\* admitted and finishes, whatever the number of /scan requests and of
\* batch runs that share the pools.
C30_WaitersAdmitted ==
    /\ \A r \in ScanIds :
          (r <= Len(scans) /\ scans[r].st = "Waiting")
              ~> (r <= Len(scans) /\ scans[r].st = "Done")
    /\ \A x \in RunIds : \A i \in UnitIds :
          (IsUnit(x, i) /\ runs[x].units[i].st = "Waiting")
              ~> (IsUnit(x, i) /\ runs[x].units[i].st = "Done")

\* the half of C30 on the index pool, whose holders have deadlines
C30_UnitsAdmitted ==
    \A x \in RunIds : \A i \in UnitIds :
        (IsUnit(x, i) /\ runs[x].units[i].st = "Waiting")
            ~> (IsUnit(x, i) /\ runs[x].units[i].st = "Done")

\* the admission alone of a waiting /scan request
C30_ScanAdmitted ==
    \A r \in ScanIds :
        (r <= Len(scans) /\ scans[r].st = "Waiting")
            ~> (r <= Len(scans) /\ scans[r].st # "Waiting")

\* every unit of the run has returned from pass 1, and from pass 2 when it
\* failed pass 1
PassesOver(run) ==
    \A i \in 1..Len(run.units) :
        /\ run.units[i].st = "Done"
        /\ run.units[i].out # <<>>
        /\ ~run.units[i].out[1] => Len(run.units[i].out) = 2

\* C31: within a batch run nothing is posted before every unit of pass 1
\* and, when it runs, of pass 2 has finished; the POSTs are issued one after
\* another in the order of the target dates.
C31_PostAfterPasses ==
    /\ [](\A x \in 1..Len(runs) : runs[x].posted > 0 => PassesOver(runs[x]))
    /\ [][ event'.type = "post" =>
              LET x == event'.run
              IN  /\ PassesOver(runs[x])
                  /\ runs'[x].units = runs[x].units
                  /\ runs'[x].posted = runs[x].posted + 1
                  /\ event'.scan_date = runs[x].scan_dates[runs[x].posted + 1]
                  /\ \A y \in 1..Len(runs) : y # x => runs'[y] = runs[y] ]_vars

\* the second date of a run is posted after a pass 2 that recovered one
\* unit and lost another
C31_Witness ==
    /\ event.type = "post"
    /\ runs[event.run].posted = 2
    /\ event.scan_date = runs[event.run].scan_dates[2]
    /\ \E i, j \in 1..Len(runs[event.run].units) :
          /\ runs[event.run].units[i].out = <<FALSE, TRUE>>
          /\ runs[event.run].units[j].out = <<FALSE, FALSE>>

\* every entry of result set `lo` has an entry of `hi` for the same
\* repository with counts at least as large
Dominated(lo, hi) ==
    \A a \in 1..Len(lo) :
        \E b \in 1..Len(hi) :
            /\ hi[b].repo_slug = lo[a].repo_slug
            /\ lo[a].total_commits <= hi[b].total_commits
            /\ lo[a].ai_commits <= hi[b].ai_commits

\* C32: backfill results are monotone in the target date: for target dates
\* d1 <= d2 of a run the cumulative total_commits and ai_commits of each
\* repository for d1 are at most those for d2, and every repository of d1's
\* result set is in d2's.
C32_MonotoneInDate ==
    (event.type = "post" /\ IsBackfill(runs[event.run].scan_dates)) =>
        LET run == runs[event.run]
        IN  \A k \in 1..Len(run.scan_dates) :
                /\ LexLe(run.scan_dates[k], event.scan_date)
                      => Dominated(ResultsFor(run.raw_results, run.scan_dates, k), event.results)
                /\ LexLe(event.scan_date, run.scan_dates[k])
                      => Dominated(event.results, ResultsFor(run.raw_results, run.scan_dates, k))

\* the later date of the list 2025-01-03, 2025-01-01 is posted first, with
\* more commits than the earlier date has
C32_Witness ==
    /\ event.type = "post"
    /\ runs[event.run].scan_dates = <<AggDates[3], AggDates[1]>>
    /\ event.scan_date = AggDates[3]
    /\ runs[event.run].posted = 1
    /\ runs[event.run].raw_results[1].data.daily_commits =
          Some(<< [date |-> Some(AggDates[1]), total |-> Some(2), ai |-> Some(1)],
                  [date |-> Some(AggDates[3]), total |-> Some(1), ai |-> Some(1)] >>)
    /\ event.results = << [repo_slug |-> PanelSlugs[1], total_commits |-> 3, ai_commits |-> 2] >>
    /\ ResultsFor(runs[event.run].raw_results, runs[event.run].scan_dates, 2)
          = << [repo_slug |-> PanelSlugs[1], total_commits |-> 2, ai_commits |-> 1] >>

\* no two elements of the sequence are equal
NoRepeat(seq) == \A a \in 1..Len(seq) : \A b \in 1..Len(seq) : a # b => seq[a] # seq[b]

SlugsIn(results) == { results[k].slug : k \in 1..Len(results) }

\* C33: when the slugs of the panel are pairwise distinct, every published
\* result set has at most one entry per repo_slug: the successes of pass 1
\* and the documents recovered in pass 2 are disjoint, and after pass 1
\* every panel identifier is either among the successes or in the failure
\* list, never in both.
C33_OneEntryPerSlug ==
    /\ (event.type = "post" /\ NoRepeat(runs[event.run].repos)) =>
          NoRepeat([k \in 1..Len(event.results) |-> event.results[k].repo_slug])
    /\ \A x \in 1..Len(runs) :
          LET run == runs[x]
              retried == { run.repos[run.work[k]] : k \in 1..Len(run.work) }
          IN  NoRepeat(run.repos) =>
                /\ NoRepeat([k \in 1..Len(run.raw_results) |-> run.raw_results[k].slug])
                /\ NoRepeat([k \in 1..Len(run.retry_results) |-> run.retry_results[k].slug])
                /\ SlugsIn(run.raw_results) \cap SlugsIn(run.retry_results) = {}
                /\ run.pc = "Pass2" =>
                      /\ NoRepeat(run.work)
                      /\ SlugsIn(run.raw_results) \cap retried = {}
                      /\ SlugsIn(run.raw_results) \cup retried
                            = { run.repos[i] : i \in 1..Len(run.repos) }
                      /\ SlugsIn(run.retry_results) \subseteq retried
                /\ (run.pc \in {"Publish", "Done"}
                      /\ \A i \in 1..Len(run.units) : run.units[i].out = <<TRUE>>)
                      => SlugsIn(run.raw_results) = { run.repos[i] : i \in 1..Len(run.repos) }

\* three distinct repositories, one of them recovered in pass 2, are posted
\* with one entry each
C33_Witness ==
    /\ event.type = "post"
    /\ Len(runs[event.run].repos) = 3
    /\ NoRepeat(runs[event.run].repos)
    /\ Len(event.results) = 3
    /\ \E i \in 1..3 : runs[event.run].units[i].out = <<FALSE, TRUE>>
    /\ \E i \in 1..3 : runs[event.run].units[i].out = <<TRUE>>

\* the panel served has no "repos" array, or no entry with a repo_slug
NoSlugIn(panel) == panel = None \/ \A j \in 1..Len(panel[1]) : panel[1][j] = None

\* C34: when the panel of the aggregator has no repository slug, /index-scan
\* launches no task, takes no permit, spawns no subprocess and posts
\* nothing; its answer carries an error field and no status "started".
C34_EmptyPanel ==
    [][ ( /\ event'.type = "index"
          /\ event'.panel # <<>>
          /\ NoSlugIn(event'.panel[1]) )
        => /\ runs' = runs
           /\ UNCHANGED <<userPermits, indexPermits, userQueue, indexQueue, scans, cleanups,
                          orphans>>
           /\ ~event'.launched
           /\ "error" \in DOMAIN event'.body
           /\ "status" \notin DOMAIN event'.body ]_vars

\* a panel whose only entry has no repo_slug has been answered
C34_Witness ==
    /\ event.type = "index"
    /\ event.panel = << Some(<<None>>) >>
    /\ event.body = [error |-> "No repos in panel", quarter |-> <<2026, 1>>]
    /\ event.status = 200
    /\ event.fetched
    /\ runs = <<>>
    /\ indexPermits = IndexCapacity

\* C35: a single-date run publishes exactly one entry for each repository
\* scanned with success, those whose total_commits is missing included
\* (reported as 0), whereas a backfill publishes no repository with a zero
\* total; the two modes can publish different sets of repositories for the
\* same scan outcomes and date.
C35_ModesDiffer ==
    event.type = "post" =>
        LET raw == runs[event.run].raw_results
        IN  IF Len(runs[event.run].scan_dates) = 1
            THEN /\ [k \in 1..Len(event.results) |-> event.results[k].repo_slug]
                       = [j \in 1..Len(raw) |-> raw[j].slug]
                 /\ \A j \in 1..Len(raw) :
                       /\ raw[j].data.total_commits = None
                             => event.results[j].total_commits = 0
                       /\ raw[j].data.ai_commits = None => event.results[j].ai_commits = 0
            ELSE /\ \A k \in 1..Len(event.results) : event.results[k].total_commits > 0
                 /\ \A j \in 1..Len(raw) :
                       TotalUpTo(raw[j].data, event.scan_date) = 0
                           => \A k \in 1..Len(event.results) :
                                 event.results[k].repo_slug # raw[j].slug

\* a single-date run has posted two repositories, one of them with 0 for
\* its missing totals, where a backfill posts none of the two for that date
C35_Witness ==
    /\ event.type = "post"
    /\ runs[event.run].scan_dates = <<AggDates[2]>>
    /\ Len(event.results) = 2
    /\ event.results[2] = [repo_slug |-> PanelSlugs[3], total_commits |-> 0, ai_commits |-> 0]
    /\ runs[event.run].raw_results[1].data.daily_commits =
          Some(<< [date |-> Some(AggDates[3]), total |-> Some(2), ai |-> Some(1)] >>)
    /\ BackfillResults(RepoDailies(runs[event.run].raw_results), event.scan_date) = <<>>

\* exactly one of from_date and to_date is in the request
OneBound(req) == (req.from_date = None) # (req.to_date = None)

\* C36: an /index-scan request with exactly one of from_date and to_date is
\* not rejected for it: the lone bound is ignored without validation, and
\* the target dates are those of scan_dates if it is present and not empty,
\* "today" otherwise. (A list with a malformed entry is answered 400 as in
\* any request.)
C36_LoneBoundIgnored ==
    (event.type = "index" /\ event.status # 401 /\ OneBound(event.req)) =>
        LET list == IF event.req.scan_dates = None THEN <<>> ELSE Unwrap(event.req.scan_dates)
            malformed == \E i \in 1..Len(list) : ~MatchSinceDate(list[i])
        IN  /\ event.status = 400 <=> malformed
            /\ event.status = 400 =>
                  event.body.msg = "Invalid scan_date format: {}, expected YYYY-MM-DD"
            /\ event.launched =>
                  runs[Len(runs)].scan_dates
                      = IF list # <<>> THEN list ELSE <<FormatDate(<<2026, 1, 15>>)>>

\* a request whose from_date alone is 2025-13-01 has been acknowledged with
\* the dates of its scan_dates list
C36_Witness ==
    /\ event.type = "index"
    /\ event.launched
    /\ event.req.from_date = Some(FormatDate(<<2025, 13, 1>>))
    /\ event.req.to_date = None
    /\ event.req.scan_dates = Some(<<FormatDate(<<2025, 3, 1>>), FormatDate(<<2025, 2, 28>>)>>)
    /\ runs[1].scan_dates = <<FormatDate(<<2025, 3, 1>>), FormatDate(<<2025, 2, 28>>)>>

\* C37: every date of the target list accepted by /index-scan is a day of
\* the calendar in YYYY-MM-DD form, whichever form supplied it; a well
\* formed date that does not exist, such as 2025-02-30, is answered 400.
C37_CalendarDates ==
    (event.type = "index" /\ event.status # 401) =>
        /\ event.launched =>
              \A i \in 1..Len(runs[Len(runs)].scan_dates) :
                  CalendarDate(runs[Len(runs)].scan_dates[i])
        /\ ( /\ event.req.scan_dates # None
             /\ ~(event.req.from_date # None /\ event.req.to_date # None)
             /\ \E i \in 1..Len(Unwrap(event.req.scan_dates)) :
                    ~CalendarDate(Unwrap(event.req.scan_dates)[i]) )
           => event.status = 400

\* C37 on ranges: a request with both bounds is acknowledged only with
\* days of the calendar, and answered 400 when a bound is not one.
C37_RangeDates ==
    ( /\ event.type = "index"
      /\ event.status # 401
      /\ event.req.from_date # None
      /\ event.req.to_date # None )
    => /\ event.launched =>
             \A i \in 1..Len(runs[Len(runs)].scan_dates) :
                 CalendarDate(runs[Len(runs)].scan_dates[i])
       /\ ( ~CalendarDate(Unwrap(event.req.from_date))
            \/ ~CalendarDate(Unwrap(event.req.to_date)) ) => event.status = 400

\* C37 on /scan: a since that is not a day of the calendar is answered 400.
C37_SinceDates ==
    (event.type = "scan" /\ event.status # 401 /\ ~CalendarDate(SinceOf(event.since)))
        => event.status = 400

====
